---- MODULE Spec2Model ----
(***************************************************************************)
(* A model of the ECS runtime of ecs-typescript-game: the EntityAllocator, *)
(* the ComponentRegistry and its storages, the ResourceRegistry, the       *)
(* deferred Commands queue, the World that composes them, and the staged   *)
(* Schedule that runs systems over a World.                                *)
(***************************************************************************)
EXTENDS Integers, Sequences, FiniteSets, TLC

\* ---------------------------------------------------------------- bounds
\* Largest number of handles the allocator issues in one run of the model.
MaxSpawns == 2
\* Largest number of commands waiting in Commands (queue + pendingSpawns).
MaxQueue == 2
\* Largest number of systems added to the Schedule.
MaxSystems == 3
\* Largest number of events sent to an Events<T>.
MaxEvents == 3
\* Largest number of Events.update calls.
MaxUpdates == 3
\* Largest number of handles issued when entities are spawned with their components.
MaxBuilt == 3
\* Largest change tick of the ComponentRegistry.
MaxTick == 2
\* Largest number of animation frames requested by an App.
MaxFrames == 2
\* Largest number of startup systems, and of frame callbacks, given to an App.
MaxStartup == 1
\* Largest number of archetypes registered in an Archetypes.
MaxArchetypes == 4
\* Largest number of observers registered in an ObserverRegistry.
MaxObservers == 3
\* Largest number of ObserverRegistry.trigger calls.
MaxTriggers == 2
\* Largest number of rows of a Table.
MaxRows == 3
\* Largest number of entity ids given to a SparseSet.
MaxIds == 3
MaxMuts == 2

\* ---------------------------------------------------------------- domains
\* `undefined`
None == "undefined"
\* Component classes (keyed by constructor name).
Comps == {"A", "B"}
\* The data of a component instance.
Vals == {"x"}
\* Component instances.
Components == [class : Comps, value : Vals]
\* Resource classes (keyed by constructor name).
ResNames == {"R"}
\* The map with no entry.
EmptyMap == [x \in {} |-> None]
\* A handle whose id the allocator never mints (ids stay below MaxSpawns).
NeverAllocated == [id |-> MaxSpawns, generation |-> 0]
\* What an onSpawn callback does with the entity it receives: nothing, or
\* commands.despawn(entity).
Callbacks == {None, "despawn"}
\* The components the deferred commands of the model carry.
CommandComponents == {[class |-> "A", value |-> "x"]}
\* The component lists an EntityCommands builder accumulates.
ComponentLists == {<<>>} \cup {<<c>> : c \in CommandComponents}

MapRemove(m, k) == [x \in DOMAIN m \ {k} |-> m[x]]
MapSet(m, k, v) == (k :> v) @@ m

\* ---------------------------------------------------------------- state
VARIABLES
    entityAllocator,   \* EntityAllocator: nextId, freeList, meta, aliveCount
    storages,          \* ComponentRegistry.storages: class name -> ComponentStorage
    resources,         \* ResourceRegistry.resources: class name -> instance
    commands,          \* Commands: queue, pendingSpawns
    schedule,          \* Schedule: stages, labeledSystems
    events,            \* Events<T>: current, previous, nextId, currentTick
    readers,           \* EventReader<T>.lastSeen of each reader
    eventLog,          \* history: the number of Events.update calls; of each event sent,
                       \* its payload and that number; the ids each reader received
    currentTick,       \* ComponentRegistry.currentTick
    lastRun,           \* QueryState.lastRun of each Query object
    iterator,          \* the generators of Query.iter() that are suspended at a yield
    app,               \* App: startupSystems, startupComplete, running, rafId, lastTime,
                       \* frameCount, frameCallbacks
    animationFrames,   \* the browser: the animation frames requested and not yet called
    archetypes,        \* Archetypes: archetypes, signatureCache
    observers,         \* ObserverRegistry.observers: key -> the list of observers
    observerLog,       \* history: the observers registered and not cleared; of each
                       \* observer, the calls of its callback and the triggers made
                       \* with its key
    table,             \* Table: columns, entities, entityToRow
    tableLog,          \* history: of each entity id with a row and each component
                       \* class, the value last set since the row was allocated
    sparseSet,         \* SparseSet: sparse, dense, entities
    changeDetection,   \* ChangeDetectionStorage: data, ticks
    muts,              \* the Mut wrappers that callers keep
    issued,            \* history: the handles allocate() has returned
    despawned,         \* history: the handles despawn has removed
    program,           \* history: the commands waiting, in the order the program issued them
    ret                \* the last call made on the World and what it returned

worldVars == <<entityAllocator, storages, resources, commands>>

\* The event queue and its readers.
eventVars == <<events, readers, eventLog>>

\* The change tick of the registry, and the queries and their iterators.
queryVars == <<currentTick, lastRun, iterator>>

\* The App and the animation frames it has requested.
appVars == <<app, animationFrames>>

\* The ObserverRegistry and its history.
observerVars == <<observers, observerLog>>

\* The Table and its history.
tableVars == <<table, tableLog>>

\* The structures the World does not hold.
mutVars == <<changeDetection, muts>>
libraryVars == <<archetypes, observerVars, tableVars, sparseSet, mutVars>>

\* What the calls on the World, the Schedule and the event queue leave alone.
outsideEvents == <<queryVars, appVars, libraryVars>>

\* What the calls on the World and on the Schedule leave alone.
outsideSchedule == <<eventVars, outsideEvents>>

\* What the calls on the World leave alone.
outsideWorld == <<schedule, outsideSchedule>>

\* The World as one value, for the operators below.
World == [entityAllocator |-> entityAllocator, storages |-> storages,
          resources |-> resources, commands |-> commands]

\* ---------------------------------------------------------------- EntityAllocator
\* The allocator after construction.
NewEntityAllocator == [nextId |-> 0, freeList |-> <<>>, meta |-> EmptyMap, aliveCount |-> 0]

\* allocate(): the allocator afterwards and the handle returned.
allocate(ea) ==
    IF Len(ea.freeList) > 0
    THEN LET id == ea.freeList[Len(ea.freeList)]
             generation == ea.meta[id].generation
         IN [ea |-> [ea EXCEPT !.freeList = SubSeq(@, 1, Len(@) - 1),
                               !.meta[id].archetypeId = 0,
                               !.meta[id].archetypeRow = 0,
                               !.aliveCount = @ + 1],
             entity |-> [id |-> id, generation |-> generation]]
    ELSE LET id == ea.nextId
         IN [ea |-> [ea EXCEPT !.nextId = @ + 1,
                               !.meta = MapSet(@, id, [generation |-> 0, archetypeId |-> 0,
                                                       archetypeRow |-> 0]),
                               !.aliveCount = @ + 1],
             entity |-> [id |-> id, generation |-> 0]]

\* deallocate with the generation left as it is
deallocateKeepsGeneration(ea, entity) ==
    IF entity.id \notin DOMAIN ea.meta
    THEN [ea |-> ea, result |-> FALSE]
    ELSE IF ea.meta[entity.id].generation # entity.generation
    THEN [ea |-> ea, result |-> FALSE]
    ELSE [ea |-> [ea EXCEPT !.freeList = Append(@, entity.id),
                            !.aliveCount = @ - 1],
          result |-> TRUE]

\* deallocate without the comparison of generations
deallocateAnyGeneration(ea, entity) ==
    IF entity.id \notin DOMAIN ea.meta
    THEN [ea |-> ea, result |-> FALSE]
    ELSE [ea |-> [ea EXCEPT !.meta[entity.id].generation = @ + 1,
                            !.freeList = Append(@, entity.id),
                            !.aliveCount = @ - 1],
          result |-> TRUE]

\* deallocate(entity): the allocator afterwards and the boolean returned.
deallocate(ea, entity) ==
    IF entity.id \notin DOMAIN ea.meta
    THEN [ea |-> ea, result |-> FALSE]
    ELSE IF ea.meta[entity.id].generation # entity.generation
    THEN [ea |-> ea, result |-> FALSE]
    ELSE [ea |-> [ea EXCEPT !.meta[entity.id].generation = @ + 1,
                            !.freeList = Append(@, entity.id),
                            !.aliveCount = @ - 1],
          result |-> TRUE]

\* isAlive(entity)
isAlive(ea, entity) ==
    IF entity.id \notin DOMAIN ea.meta
    THEN FALSE
    ELSE ea.meta[entity.id].generation = entity.generation

\* Whether id occurs in the free list (freeList.includes(id)).
includes(list, id) == \E i \in 1..Len(list) : list[i] = id

\* getAllAlive(): the handles of the ids that are not in the free list.
getAllAlive(ea) ==
    {[id |-> id, generation |-> ea.meta[id].generation] :
        id \in {i \in DOMAIN ea.meta : ~includes(ea.freeList, i)}}

\* getCount()
getCount(ea) == ea.aliveCount

\* ---------------------------------------------------------------- ComponentStorage
\* A ComponentStorage after construction: no component, no ticks.
NewComponentStorage == [storage |-> EmptyMap, ticks |-> EmptyMap]

\* new ComponentTicks(tick)
ComponentTicks(tick) == [added |-> tick, changed |-> tick]

\* ComponentStorage.insert(entityId, component, tick = 0)
storageInsert(st, entityId, component, tick) ==
    [storage |-> MapSet(st.storage, entityId, component),
     ticks |-> MapSet(st.ticks, entityId, ComponentTicks(tick))]

\* ComponentStorage.get(entityId)
storageGet(st, entityId) ==
    IF entityId \in DOMAIN st.storage THEN st.storage[entityId] ELSE None

\* ComponentStorage.has(entityId)
storageHas(st, entityId) == entityId \in DOMAIN st.storage

\* ComponentStorage.remove(entityId): the storage afterwards (the boolean is storageHas before).
storageRemove(st, entityId) ==
    [storage |-> MapRemove(st.storage, entityId), ticks |-> MapRemove(st.ticks, entityId)]

\* ---------------------------------------------------------------- ComponentRegistry
\* ComponentRegistry.register via getStorage: a storage is created on first access.
getStorage(sts, class) ==
    IF class \in DOMAIN sts THEN sts ELSE MapSet(sts, class, NewComponentStorage)

\* ComponentRegistry.removeEntity(entityId): remove from every registered storage.
removeEntity(sts, entityId) ==
    [c \in DOMAIN sts |-> storageRemove(sts[c], entityId)]

\* ---------------------------------------------------------------- ResourceRegistry
\* ResourceRegistry.insertInstance(resource): keyed by the constructor name.
insertInstance(rs, resource) == MapSet(rs, resource, resource)

\* ResourceRegistry.remove(resourceClass)
resourceRemove(rs, resourceClass) == MapRemove(rs, resourceClass)

\* ---------------------------------------------------------------- Commands
\* Commands after construction.
NewCommands == [queue |-> <<>>, pendingSpawns |-> <<>>]

\* Commands.spawn() and the builder calls that follow it: insert(...)* [onSpawn(cb)].
commandsSpawn(cm, components, callback) ==
    [cm EXCEPT !.pendingSpawns = Append(@, [components |-> components, callback |-> callback])]

\* Commands.despawn(entity)
commandsDespawn(cm, entity) ==
    [cm EXCEPT !.queue = Append(@, [type |-> "DespawnEntity", entity |-> entity])]

\* Commands.insertComponent(entity, component)
commandsInsertComponent(cm, entity, component) ==
    [cm EXCEPT !.queue = Append(@, [type |-> "InsertComponent", entity |-> entity,
                                    component |-> component])]

\* Commands.removeComponent(entity, componentClass)
commandsRemoveComponent(cm, entity, componentClass) ==
    [cm EXCEPT !.queue = Append(@, [type |-> "RemoveComponent", entity |-> entity,
                                    componentClass |-> componentClass])]

\* Commands.insertResource(resource)
commandsInsertResource(cm, resource) ==
    [cm EXCEPT !.queue = Append(@, [type |-> "InsertResource", resource |-> resource])]

\* Commands.removeResource(resourceClass)
commandsRemoveResource(cm, resourceClass) ==
    [cm EXCEPT !.queue = Append(@, [type |-> "RemoveResource", resourceClass |-> resourceClass])]

\* Commands._finalizePendingSpawns(): every pending spawn is pushed onto the queue.
finalizePendingSpawns(cm) ==
    [queue |-> cm.queue \o [i \in 1..Len(cm.pendingSpawns) |->
                               [type |-> "SpawnEntity",
                                components |-> cm.pendingSpawns[i].components,
                                callback |-> cm.pendingSpawns[i].callback]],
     pendingSpawns |-> <<>>]

\* Commands._drain(): the Commands afterwards and the list returned.
drain(cm) ==
    LET finalized == finalizePendingSpawns(cm)
    IN [commands |-> [finalized EXCEPT !.queue = <<>>], list |-> finalized.queue]

\* Commands.hasPending()
hasPending(cm) == Len(cm.queue) > 0 \/ Len(cm.pendingSpawns) > 0

\* ---------------------------------------------------------------- World
\* World.despawn(entity): the World afterwards and the boolean returned.
despawn(w, entity) ==
    LET d == deallocate(w.entityAllocator, entity)
    IN [world |-> IF d.result
                  THEN [w EXCEPT !.entityAllocator = d.ea,
                                 !.storages = removeEntity(@, entity.id)]
                  ELSE w,
        result |-> d.result]

\* World.insertComponent(entity, component)
insertComponent(w, entity, component) ==
    LET sts == getStorage(w.storages, component.class)
    IN [w EXCEPT !.storages =
            [sts EXCEPT ![component.class] = storageInsert(@, entity.id, component.value, 0)]]

\* World.getComponent(entity, componentClass): the World afterwards and the value returned.
getComponent(w, entity, componentClass) ==
    LET sts == getStorage(w.storages, componentClass)
    IN [world |-> [w EXCEPT !.storages = sts],
        result |-> storageGet(sts[componentClass], entity.id)]

\* World.hasComponent(entity, componentClass)
hasComponent(w, entity, componentClass) ==
    LET sts == getStorage(w.storages, componentClass)
    IN [world |-> [w EXCEPT !.storages = sts],
        result |-> storageHas(sts[componentClass], entity.id)]

\* World.removeComponent(entity, componentClass)
removeComponent(w, entity, componentClass) ==
    LET sts == getStorage(w.storages, componentClass)
    IN [world |-> [w EXCEPT !.storages =
                      [sts EXCEPT ![componentClass] = storageRemove(@, entity.id)]],
        result |-> storageHas(sts[componentClass], entity.id)]

\* An onSpawn callback called with the entity just spawned.
callCallback(w, callback, entity) ==
    IF callback = "despawn"
    THEN [w EXCEPT !.commands = commandsDespawn(@, entity)]
    ELSE w

RECURSIVE insertAll(_, _, _)
\* for (const component of command.components) this.insertComponent(entity, component)
insertAll(w, entity, components) ==
    IF components = <<>> THEN w
    ELSE insertAll(insertComponent(w, entity, Head(components)), entity, Tail(components))

\* applyCommand without the isAlive test before InsertComponent and RemoveComponent
applyCommandToDead(w, command) ==
    CASE command.type = "SpawnEntity" ->
            LET a == allocate(w.entityAllocator)
                w1 == insertAll([w EXCEPT !.entityAllocator = a.ea], a.entity,
                                command.components)
            IN IF command.callback # None
               THEN callCallback(w1, command.callback, a.entity)
               ELSE w1
      [] command.type = "DespawnEntity" -> despawn(w, command.entity).world
      [] command.type = "InsertComponent" ->
            insertComponent(w, command.entity, command.component)
      [] command.type = "RemoveComponent" ->
            removeComponent(w, command.entity, command.componentClass).world
      [] command.type = "InsertResource" ->
            [w EXCEPT !.resources = insertInstance(@, command.resource)]
      [] command.type = "RemoveResource" ->
            [w EXCEPT !.resources = resourceRemove(@, command.resourceClass)]

\* World.applyCommand(command)
applyCommand(w, command) ==
    CASE command.type = "SpawnEntity" ->
            LET a == allocate(w.entityAllocator)
                w1 == insertAll([w EXCEPT !.entityAllocator = a.ea], a.entity,
                                command.components)
            IN IF command.callback # None
               THEN callCallback(w1, command.callback, a.entity)
               ELSE w1
      [] command.type = "DespawnEntity" -> despawn(w, command.entity).world
      [] command.type = "InsertComponent" ->
            IF isAlive(w.entityAllocator, command.entity)
            THEN insertComponent(w, command.entity, command.component)
            ELSE w
      [] command.type = "RemoveComponent" ->
            IF isAlive(w.entityAllocator, command.entity)
            THEN removeComponent(w, command.entity, command.componentClass).world
            ELSE w
      [] command.type = "InsertResource" ->
            [w EXCEPT !.resources = insertInstance(@, command.resource)]
      [] command.type = "RemoveResource" ->
            [w EXCEPT !.resources = resourceRemove(@, command.resourceClass)]

RECURSIVE applyEach(_, _)
\* for (const command of commands) this.applyCommand(command)
applyEach(w, list) ==
    IF list = <<>> THEN w ELSE applyEach(applyCommand(w, Head(list)), Tail(list))

\* World.applyCommands()
applyCommands(w) ==
    LET d == drain(w.commands)
    IN applyEach([w EXCEPT !.commands = d.commands], d.list)

\* World.clear() that leaves the commands waiting
clearKeepsCommands(w) ==
    [entityAllocator |-> NewEntityAllocator,
     storages |-> [c \in DOMAIN w.storages |-> NewComponentStorage],
     resources |-> EmptyMap,
     commands |-> w.commands]

\* World.clear()
clear(w) ==
    [entityAllocator |-> NewEntityAllocator,
     storages |-> [c \in DOMAIN w.storages |-> NewComponentStorage],
     resources |-> EmptyMap,
     commands |-> drain(w.commands).commands]

\* ---------------------------------------------------------------- calls on the World
\* What queries, isAlive and hasComponent read of a World.
View(w) == [entityAllocator |-> w.entityAllocator, storages |-> w.storages]

\* The components each id carries, whatever storages are registered.
ComponentsOf(sts) ==
    [c \in Comps |-> IF c \in DOMAIN sts THEN sts[c].storage ELSE EmptyMap]

\* The counters stay within the bounds of the model.
InBounds(w, handles) ==
    /\ Cardinality(handles) <= MaxSpawns
    /\ Len(w.commands.queue) + Len(w.commands.pendingSpawns) <= MaxQueue

\* The handles a caller can pass: those spawn has returned, and one of an id never minted.
Known == issued \cup {NeverAllocated}

SetWorld(w) ==
    /\ entityAllocator' = w.entityAllocator
    /\ storages' = w.storages
    /\ resources' = w.resources
    /\ commands' = w.commands

\* history of one command of applyCommands(): the command, whether its target was
\* alive when it was applied, the handle it allocated, and whether it changed the
\* entity allocator or a component storage
Step(w, command) ==
    [command |-> command,
     alive |-> IF command.type \in {"DespawnEntity", "InsertComponent", "RemoveComponent"}
               THEN isAlive(w.entityAllocator, command.entity)
               ELSE FALSE,
     spawned |-> IF command.type = "SpawnEntity"
                 THEN allocate(w.entityAllocator).entity
                 ELSE NeverAllocated,
     changed |-> View(applyCommand(w, command)) # View(w)]

RECURSIVE applySteps(_, _)
\* history of one applyCommands(): a Step for each command, in the order applied
applySteps(w, list) ==
    IF list = <<>> THEN <<>>
    ELSE <<Step(w, Head(list))>> \o applySteps(applyCommand(w, Head(list)), Tail(list))

\* ---------------------------------------------------------------- Events
\* The payloads of the events sent.
EventVals == {"e", "f"}

\* The EventReaders of the model.
Readers == {"r1", "r2"}

\* An Events<T> after construction.
NewEvents == [current |-> <<>>, previous |-> <<>>, nextId |-> 0, currentTick |-> 0]

\* Events.send(event): the Events afterwards (the id returned is nextId before).
send(ev, event) ==
    [ev EXCEPT !.nextId = @ + 1,
               !.current = Append(@, [id |-> ev.nextId, event |-> event,
                                      tick |-> ev.currentTick])]

\* Events.update that appends the current buffer to the previous one
updateKeepsPrevious(ev, tick) ==
    [ev EXCEPT !.currentTick = tick, !.previous = ev.previous \o ev.current,
               !.current = <<>>]

\* Events.update(tick)
update(ev, tick) ==
    [ev EXCEPT !.currentTick = tick, !.previous = ev.current, !.current = <<>>]

\* Events.iter(): the events yielded by a full iteration.
iter(ev) == [i \in 1..Len(ev.previous) |-> ev.previous[i].event]

\* Events.iterWithId(): the [id, event] pairs yielded by a full iteration.
iterWithId(ev) == [i \in 1..Len(ev.previous) |-> <<ev.previous[i].id, ev.previous[i].event>>]

RECURSIVE readerLoop(_, _, _)
\* The loop of EventReader.iter over the pairs of iterWithId: lastSeen afterwards and
\* the pairs whose event was yielded.
readerLoop(lastSeen, pairs, yielded) ==
    IF pairs = <<>>
    THEN [lastSeen |-> lastSeen, yielded |-> yielded]
    ELSE IF Head(pairs)[1] > lastSeen
    THEN readerLoop(Head(pairs)[1], Tail(pairs), Append(yielded, Head(pairs)))
    ELSE readerLoop(lastSeen, Tail(pairs), yielded)

\* EventReader.iter that does not record what it has seen
readerIterForgets(lastSeen, ev) ==
    [lastSeen |-> lastSeen, yielded |-> readerLoop(lastSeen, iterWithId(ev), <<>>).yielded]

\* EventReader.iter(events), run to completion
readerIter(lastSeen, ev) == readerLoop(lastSeen, iterWithId(ev), <<>>)

\* EventReader.peek(events), run to completion: the pairs whose event is yielded.
peek(lastSeen, ev) == SelectSeq(iterWithId(ev), LAMBDA pair : pair[1] > lastSeen)

\* EventReader.hasUnread(events)
hasUnread(lastSeen, ev) == \E i \in 1..Len(ev.previous) : ev.previous[i].id > lastSeen

\* ---------------------------------------------------------------- Schedule
\* enum Stage
Stages == {"First", "PreUpdate", "Update", "PostUpdate", "Last"}

\* STAGE_ORDER
STAGE_ORDER == <<"First", "PreUpdate", "Update", "PostUpdate", "Last">>

\* The labels given to systems: the empty string and two names.
Labels == {"", "a", "b"}

\* A Schedule after construction: an empty array for each stage, no label.
NewSchedule == [stages |-> [s \in Stages |-> <<>>], labeledSystems |-> EmptyMap]

\* `if (config.label)`: undefined and the empty string are falsy.
Truthy(label) == label # None /\ label # ""

\* Schedule.systemCount()
systemCount(sched) ==
    Len(sched.stages["First"]) + Len(sched.stages["PreUpdate"]) + Len(sched.stages["Update"])
        + Len(sched.stages["PostUpdate"]) + Len(sched.stages["Last"])

\* new SystemDescriptor(fn): the Update stage, enabled. An absent label or run
\* criteria is `undefined`; an absent before or after is the empty list.
SystemDescriptor(fn) ==
    [fn |-> fn, label |-> None, stage |-> "Update", runCriteria |-> None,
     before |-> <<>>, after |-> <<>>, enabled |-> TRUE]

\* SystemDescriptor.label(label)
label(descriptor, l) == [descriptor EXCEPT !.label = l]

\* SystemDescriptor.inStage(stage)
inStage(descriptor, stage) == [descriptor EXCEPT !.stage = stage]

\* SystemDescriptor.runIf(criteria)
runIf(descriptor, criteria) == [descriptor EXCEPT !.runCriteria = criteria]

\* SystemDescriptor.before(label)
before(descriptor, l) == [descriptor EXCEPT !.before = Append(@, l)]

\* SystemDescriptor.after(label)
after(descriptor, l) == [descriptor EXCEPT !.after = Append(@, l)]

\* SystemDescriptor.setEnabled(enabled)
setEnabled(descriptor, enabled) == [descriptor EXCEPT !.enabled = enabled]

\* Schedule.addSystem(descriptor). descriptor.build() makes a new config object: ref
\* stands for its identity (the Set and the Map of the Schedule hold references).
addSystem(sched, descriptor) ==
    LET config == [ref |-> systemCount(sched) + 1,
                   fn |-> descriptor.fn,
                   label |-> descriptor.label,
                   stage |-> descriptor.stage,
                   runCriteria |-> descriptor.runCriteria,
                   before |-> descriptor.before,
                   after |-> descriptor.after,
                   enabled |-> descriptor.enabled]
    IN [stages |-> [sched.stages EXCEPT ![config.stage] = Append(@, config)],
        labeledSystems |-> IF Truthy(config.label)
                           THEN MapSet(sched.labeledSystems, config.label, config)
                           ELSE sched.labeledSystems]

\* canRunNow that waits for nothing
canRunNowAlways(sched, system, processed) == TRUE

\* canRunNow that looks at the first `after` label only
canRunNowFirstLabel(sched, system, processed) ==
    IF Len(system.after) = 0
    THEN TRUE
    ELSE ~(/\ system.after[1] \in DOMAIN sched.labeledSystems
           /\ sched.labeledSystems[system.after[1]] \notin processed)

\* Schedule.canRunNow(system, processed). An absent `after` is the empty list.
canRunNow(sched, system, processed) ==
    IF Len(system.after) = 0
    THEN TRUE
    ELSE \A i \in 1..Len(system.after) :
            LET afterLabel == system.after[i]
            IN ~(/\ afterLabel \in DOMAIN sched.labeledSystems
                 /\ sched.labeledSystems[afterLabel] \notin processed)

\* remaining.splice(i, 1)
splice(remaining, i) == SubSeq(remaining, 1, i - 1) \o SubSeq(remaining, i + 1, Len(remaining))

RECURSIVE sortLoopDropsRemainder(_, _, _, _)
\* sortSystems that drops the remainder when no remaining system can run
sortLoopDropsRemainder(sched, sorted, remaining, processed) ==
    IF Len(remaining) = 0
    THEN sorted
    ELSE LET found == {i \in 1..Len(remaining) : canRunNow(sched, remaining[i], processed)}
         IN IF found = {}
            THEN sorted
            ELSE LET i == CHOOSE k \in found : \A j \in found : k <= j
                 IN sortLoopDropsRemainder(sched, Append(sorted, remaining[i]),
                                           splice(remaining, i), processed \cup {remaining[i]})

RECURSIVE sortLoop(_, _, _, _)
\* The while loop of sortSystems: the first remaining system that can run now is
\* moved to sorted; when there is none, the remainder is appended as it is.
sortLoop(sched, sorted, remaining, processed) ==
    IF Len(remaining) = 0
    THEN sorted
    ELSE LET found == {i \in 1..Len(remaining) : canRunNow(sched, remaining[i], processed)}
         IN IF found = {}
            THEN sorted \o remaining
            ELSE LET i == CHOOSE k \in found : \A j \in found : k <= j
                 IN sortLoop(sched, Append(sorted, remaining[i]), splice(remaining, i),
                             processed \cup {remaining[i]})

\* Schedule.sortSystems(systems)
sortSystems(sched, systems) == sortLoop(sched, <<>>, systems, {})

\* ---------------------------------------------------------------- systems
\* What the system functions of the model do with the World: read it only; queue a
\* spawn with a component; queue a despawn, an insert or a remove for every entity
\* alive; call world.applyCommands() themselves, as bossSpawnSystem does.
SystemFns == {"read", "spawn", "despawn", "insert", "remove", "applyCommands"}

\* The run criteria of the model: none, or "the World has an entity".
RunCriteria == {None, "hasEntities"}

\* system.runCriteria(world)
runCriteria(w, criteria) == w.entityAllocator.aliveCount > 0

\* World.entities(): the handles alive, in the order of their ids.
entities(w) ==
    LET alive == getAllAlive(w.entityAllocator)
    IN [k \in 1..Cardinality(alive) |->
           CHOOSE e \in alive : Cardinality({o \in alive : o.id < e.id}) = k - 1]

RECURSIVE queueForEach(_, _, _)
\* for (const entity of world.entities()) commands.<fn>(entity, ...)
queueForEach(cm, list, fn) ==
    IF list = <<>> THEN cm
    ELSE queueForEach(
            CASE fn = "despawn" -> commandsDespawn(cm, Head(list))
              [] fn = "insert" ->
                    commandsInsertComponent(cm, Head(list), [class |-> "A", value |-> "x"])
              [] fn = "remove" -> commandsRemoveComponent(cm, Head(list), "A"),
            Tail(list), fn)

\* world.applyCommands() within a run. A run in progress is the World, the history of
\* the handles issued and despawned, and the history of the run.
flush(rs) ==
    LET d == drain(rs.world.commands)
        steps == applySteps([rs.world EXCEPT !.commands = d.commands], d.list)
        each == 1..Len(steps)
    IN [rs EXCEPT
           !.world = applyCommands(rs.world),
           !.issued = @ \cup {steps[i].spawned :
                                 i \in {j \in each : steps[j].command.type = "SpawnEntity"}},
           !.despawned = @ \cup {steps[i].command.entity :
                                    i \in {j \in each :
                                              /\ steps[j].command.type = "DespawnEntity"
                                              /\ steps[j].alive}}]

\* system.fn(world)
callFn(rs, fn) ==
    CASE fn = "read" -> rs
      [] fn = "spawn" ->
            [rs EXCEPT !.world.commands =
                commandsSpawn(@, <<[class |-> "A", value |-> "x"]>>, None)]
      [] fn \in {"despawn", "insert", "remove"} ->
            [rs EXCEPT !.world.commands = queueForEach(@, entities(rs.world), fn)]
      [] fn = "applyCommands" -> flush(rs)

\* history of one call of runSystem: the system, whether its function ran and
\* whether it called world.applyCommands(); what queries, isAlive and hasComponent
\* read when it was entered (view) and when it returned (after); and what they would
\* read were the commands pending at its return applied (expect)
SystemEvent(system, ran, entered, returned) ==
    [kind |-> "system", stage |-> system.stage, ref |-> system.ref, ran |-> ran,
     flushed |-> ran /\ system.fn = "applyCommands",
     view |-> View(entered), after |-> View(returned),
     expect |-> View(applyCommands(returned))]

\* history of the applyCommands() that runStage calls
ApplyEvent(stage, entered, returned) ==
    [kind |-> "applyCommands", stage |-> stage, ref |-> 0, ran |-> TRUE, flushed |-> TRUE,
     view |-> View(entered), after |-> View(returned), expect |-> View(returned)]

\* The world.applyCommands() of runStage, with its history.
stageApply(rs, stage) ==
    LET r == flush(rs)
    IN [r EXCEPT !.trace = Append(@, ApplyEvent(stage, rs.world, r.world))]

\* Schedule.runSystem(system, world)
runSystem(rs, system) ==
    IF ~system.enabled
    THEN [rs EXCEPT !.trace = Append(@, SystemEvent(system, FALSE, rs.world, rs.world))]
    ELSE IF system.runCriteria # None /\ ~runCriteria(rs.world, system.runCriteria)
    THEN [rs EXCEPT !.trace = Append(@, SystemEvent(system, FALSE, rs.world, rs.world))]
    ELSE LET r == callFn(rs, system.fn)
         IN [r EXCEPT !.trace = Append(@, SystemEvent(system, TRUE, rs.world, r.world))]

RECURSIVE runEach(_, _)
\* for (const system of sortedSystems) this.runSystem(system, world)
runEach(rs, sortedSystems) ==
    IF sortedSystems = <<>> THEN rs
    ELSE runEach(runSystem(rs, Head(sortedSystems)), Tail(sortedSystems))

RECURSIVE runEachAndApply(_, _)
\* the loop of runStage with world.applyCommands() after every system
runEachAndApply(rs, sortedSystems) ==
    IF sortedSystems = <<>> THEN rs
    ELSE runEachAndApply(stageApply(runSystem(rs, Head(sortedSystems)),
                                    Head(sortedSystems).stage),
                         Tail(sortedSystems))

\* runStage that applies the commands after every system instead of after the stage
runStageApplyEachSystem(sched, rs, stage) ==
    runEachAndApply(rs, sortSystems(sched, sched.stages[stage]))

\* runStage without world.applyCommands()
runStageWithoutApply(sched, rs, stage) ==
    runEach(rs, sortSystems(sched, sched.stages[stage]))

\* Schedule.runStage(stage, world)
runStage(sched, rs, stage) ==
    stageApply(runEach(rs, sortSystems(sched, sched.stages[stage])), stage)

RECURSIVE runStages(_, _, _)
\* for (const stage of STAGE_ORDER) this.runStage(stage, world)
runStages(sched, rs, order) ==
    IF order = <<>> THEN rs
    ELSE runStages(sched, runStage(sched, rs, Head(order)), Tail(order))

\* Schedule.run(world)
run(sched, rs) == runStages(sched, rs, STAGE_ORDER)

\* ---------------------------------------------------------------- change detection
\* ComponentTicks.setChanged that moves `added` as well
setChangedAndAdded(ticks, tick) == [added |-> tick, changed |-> tick]

\* ComponentTicks.setChanged(tick)
setChanged(ticks, tick) == [ticks EXCEPT !.changed = tick]

\* ComponentTicks.wasChangedAfter(lastRun, thisTick)
wasChangedAfter(ticks, last, thisTick) == ticks.changed > last /\ ticks.changed <= thisTick

\* ComponentTicks.isAdded(lastRun, thisTick)
isAdded(ticks, last, thisTick) == wasChangedAfter(ticks, last, thisTick) /\ ticks.added > last

\* ComponentTicks.isChanged that takes a change at lastRun as new
isChangedInclusive(ticks, last, thisTick) == ticks.changed >= last /\ ticks.changed <= thisTick

\* ComponentTicks.isChanged(lastRun, thisTick)
isChanged(ticks, last, thisTick) == wasChangedAfter(ticks, last, thisTick)

\* matchesChangeFilter(ticks, filter, lastRun, thisTick)
matchesChangeFilter(ticks, filter, last, thisTick) ==
    CASE filter = "None" -> TRUE
      [] filter = "Added" -> isAdded(ticks, last, thisTick)
      [] filter = "Changed" -> isChanged(ticks, last, thisTick)

\* ---------------------------------------------------------------- Query
\* world.query(...componentClasses): a Query with no filter.
NewQuery(componentClasses) == [componentClasses |-> componentClasses, filters |-> <<>>]

\* Query.with(componentClass)
with(q, componentClass) ==
    [q EXCEPT !.filters = Append(@, [type |-> "With", componentClass |-> componentClass])]

\* Query.without(componentClass)
without(q, componentClass) ==
    [q EXCEPT !.filters = Append(@, [type |-> "Without", componentClass |-> componentClass])]

\* Query.added(componentClass)
added(q, componentClass) ==
    [q EXCEPT !.filters = Append(@, [type |-> "Added", componentClass |-> componentClass])]

\* Query.changed(componentClass)
changed(q, componentClass) ==
    [q EXCEPT !.filters = Append(@, [type |-> "Changed", componentClass |-> componentClass])]

RECURSIVE hasAll(_, _, _)
\* The first loop of matchesEntity: the storages afterwards (getStorage registers a
\* class on first access) and whether the id has every required component.
hasAll(sts, entityId, componentClasses) ==
    IF componentClasses = <<>>
    THEN [storages |-> sts, result |-> TRUE]
    ELSE LET s1 == getStorage(sts, Head(componentClasses))
         IN IF ~storageHas(s1[Head(componentClasses)], entityId)
            THEN [storages |-> s1, result |-> FALSE]
            ELSE hasAll(s1, entityId, Tail(componentClasses))

\* Query.matchesFilter(entity, filter, thisTick, lastRun)
matchesFilter(sts, entity, filter, thisTick, last) ==
    LET s1 == getStorage(sts, filter.componentClass)
        storage == s1[filter.componentClass]
    IN [storages |-> s1,
        result |->
            CASE filter.type = "With" -> storageHas(storage, entity.id)
              [] filter.type = "Without" -> ~storageHas(storage, entity.id)
              [] filter.type \in {"Added", "Changed"} ->
                    IF entity.id \notin DOMAIN storage.ticks
                    THEN FALSE
                    ELSE matchesChangeFilter(storage.ticks[entity.id], filter.type, last,
                                             thisTick)]

\* The second loop of matchesEntity, passing every filter
matchesFiltersNone(sts, entity, filters, thisTick, last) == [storages |-> sts, result |-> TRUE]

RECURSIVE matchesFilters(_, _, _, _, _)
\* The second loop of matchesEntity.
matchesFilters(sts, entity, filters, thisTick, last) ==
    IF filters = <<>>
    THEN [storages |-> sts, result |-> TRUE]
    ELSE LET m == matchesFilter(sts, entity, Head(filters), thisTick, last)
         IN IF ~m.result
            THEN m
            ELSE matchesFilters(m.storages, entity, Tail(filters), thisTick, last)

\* Query.matchesEntity(entity, thisTick, lastRun)
matchesEntity(sts, entity, q, thisTick, last) ==
    LET h == hasAll(sts, entity.id, q.componentClasses)
    IN IF ~h.result THEN h
       ELSE matchesFilters(h.storages, entity, q.filters, thisTick, last)

RECURSIVE fetchLoop(_, _, _, _)
\* The loop of fetchComponents.
fetchLoop(sts, entityId, componentClasses, components) ==
    IF componentClasses = <<>>
    THEN [storages |-> sts, result |-> components]
    ELSE LET s1 == getStorage(sts, Head(componentClasses))
             component == storageGet(s1[Head(componentClasses)], entityId)
         IN IF component = None
            THEN [storages |-> s1, result |-> None]
            ELSE fetchLoop(s1, entityId, Tail(componentClasses),
                           Append(components, component))

\* Query.fetchComponents(entity): the components, or `undefined`.
fetchComponents(sts, entity, q) == fetchLoop(sts, entity.id, q.componentClasses, <<>>)

RECURSIVE queryNext(_, _, _, _, _)
\* One next() of the generator of Query.iter(): the loop goes on over the entities
\* left until it yields [entity, ...components] or runs off the end of the list.
queryNext(sts, left, q, thisTick, last) ==
    IF left = <<>>
    THEN [storages |-> sts, left |-> <<>>, done |-> TRUE, value |-> <<>>]
    ELSE LET m == matchesEntity(sts, Head(left), q, thisTick, last)
             f == fetchComponents(m.storages, Head(left), q)
         IN IF ~m.result
            THEN queryNext(m.storages, Tail(left), q, thisTick, last)
            ELSE IF f.result = None
            THEN queryNext(f.storages, Tail(left), q, thisTick, last)
            ELSE [storages |-> f.storages, left |-> Tail(left), done |-> FALSE,
                  value |-> <<Head(left)>> \o f.result]

RECURSIVE queryRest(_, _, _, _, _, _)
\* next() called until the generator is done: the storages afterwards and the
\* tuples yielded.
queryRest(sts, left, q, thisTick, last, yielded) ==
    LET n == queryNext(sts, left, q, thisTick, last)
    IN IF n.done
       THEN [storages |-> n.storages, yielded |-> yielded]
       ELSE queryRest(n.storages, n.left, q, thisTick, last, Append(yielded, n.value))

\* QueryState.updateLastRun that keeps the tick it has
updateLastRunNever(lastRuns, q, thisTick) == lastRuns

\* QueryState.updateLastRun(tick)
updateLastRun(lastRuns, q, thisTick) == [lastRuns EXCEPT ![q] = thisTick]

\* Query.toArray(): Array.from(this.iter()), the generator run to its end over the
\* entities alive.
toArray(w, q, thisTick, last) == queryRest(w.storages, entities(w), q, thisTick, last, <<>>)

\* ComponentRegistry.incrementTick()
incrementTick(t) == t + 1

\* ComponentRegistry.getTick()
getTick(t) == t

\* The time between two animation frames, in ms.
FrameTimes == {16, 17}

\* The component classes of the queries of the model.
QueryComps == {"A", "B", "C"}

\* The components given to the entities that are queried.
QueryComponents == [class : QueryComps, value : Vals]

\* world.query(A, B)
QueryAB == NewQuery(<<"A", "B">>)

\* world.query(A, B).without(C)
QueryABWithoutC == without(NewQuery(<<"A", "B">>), "C")

\* world.query(A, B).with(C)
QueryABWithC == with(NewQuery(<<"A", "B">>), "C")

\* world.query(A).added(A)
QueryAddedA == added(NewQuery(<<"A">>), "A")

\* world.query(A).changed(A)
QueryChangedA == changed(NewQuery(<<"A">>), "A")

\* The Query objects of the model, each held by its caller from one use to the next.
Queries == {QueryAB, QueryABWithoutC, QueryABWithC, QueryAddedA, QueryChangedA}

\* ---------------------------------------------------------------- App
\* An App after construction. rafId 0 stands for null: the ids that
\* requestAnimationFrame returns are positive.
NewApp ==
    [startupSystems |-> <<>>, startupComplete |-> FALSE, running |-> FALSE, rafId |-> 0,
     lastTime |-> 0, frameCount |-> 0, frameCallbacks |-> <<>>]

\* The animation frames of the browser: the last id given and the ids whose callback is
\* still to be called.
NewAnimationFrames == [last |-> 0, pending |-> {}]

\* new Time(). delta and elapsed are kept in units of 1/100000 s, so that the 16.67 ms
\* of the first frame is the whole number 1667.
NewTime == [delta |-> 0, elapsed |-> 0, frameCount |-> 0]

\* The history of a frame callback called.
CallbackEvent(callback) == [kind |-> "callback", callback |-> callback]

\* requestAnimationFrame(callback): the frames afterwards (the id returned is .last)
requestAnimationFrame(af) == [last |-> af.last + 1, pending |-> af.pending \cup {af.last + 1}]

\* cancelAnimationFrame(id)
cancelAnimationFrame(af, id) == [af EXCEPT !.pending = @ \ {id}]

\* What a World holds: the entities alive, the components, the resources and the
\* commands waiting.
Holds(w) ==
    [alive |-> getAllAlive(w.entityAllocator),
     components |-> {c \in DOMAIN w.storages : w.storages[c].storage # EmptyMap},
     resources |-> w.resources,
     pending |-> hasPending(w.commands)]

\* The history of a startup system called: its place in startupSystems, and what the
\* World held when it was entered.
StartupEvent(index, fn, entered) ==
    [kind |-> "startup", index |-> index, fn |-> fn, held |-> Holds(entered)]

\* The history of the world.applyCommands() of runStartup: whether commands stayed
\* pending.
StartupApplyEvent(returned) ==
    [kind |-> "startupApply", pending |-> hasPending(returned.commands)]

\* The history of a Schedule.run entered by the App: whether commands were pending.
RunEvent(entered) == [kind |-> "run", pending |-> hasPending(entered.commands)]

\* The history of the World cleared by reset and given its new Time: what it held when
\* reset was called and what it holds now.
ResetEvent(entered, cleared) ==
    [kind |-> "reset", before |-> Holds(entered), held |-> Holds(cleared)]

RECURSIVE callEach(_, _, _)
\* for (const startupFn of this.startupSystems) startupFn(this.world), from the
\* index-th on
callEach(rs, fns, index) ==
    IF index > Len(fns) THEN rs
    ELSE callEach([callFn(rs, fns[index]) EXCEPT
                      !.trace = Append(@, StartupEvent(index, fns[index], rs.world))],
                  fns, index + 1)

\* runStartup that leaves the commands of the startup systems in the queue
runStartupNoApply(ap) ==
    IF ap.app.startupComplete
    THEN ap
    ELSE [ap EXCEPT !.rs = callEach(@, ap.app.startupSystems, 1),
                    !.app.startupComplete = TRUE]

\* App.runStartup(). An App at work is the App, the animation frames, and the run in
\* progress on its World.
runStartup(ap) ==
    IF ap.app.startupComplete
    THEN ap
    ELSE LET r == flush(callEach(ap.rs, ap.app.startupSystems, 1))
         IN [ap EXCEPT !.rs = [r EXCEPT !.trace = Append(@, StartupApplyEvent(r.world))],
                       !.app.startupComplete = TRUE]

\* this.rafId = requestAnimationFrame((t) => this.runFrame(t))
scheduleFrame(ap) ==
    LET af == requestAnimationFrame(ap.animationFrames)
    IN [ap EXCEPT !.animationFrames = af, !.app.rafId = af.last]

\* App.runFrame(timestamp), timestamp in ms
runFrame(sched, ap, timestamp) ==
    LET deltaTime == IF ap.app.lastTime = 0 THEN 1667 ELSE (timestamp - ap.app.lastTime) * 100
        resources0 == ap.rs.world.resources
        timed == IF "Time" \in DOMAIN resources0
                 THEN [resources0 EXCEPT !["Time"] =
                          [delta |-> deltaTime, elapsed |-> @.elapsed + deltaTime,
                           frameCount |-> @.frameCount + 1]]
                 ELSE resources0
        called == [i \in 1..Len(ap.app.frameCallbacks) |->
                      CallbackEvent(ap.app.frameCallbacks[i])]
        rs1 == [ap.rs EXCEPT !.world.resources = timed,
                             !.trace = Append(@ \o called, RunEvent(ap.rs.world))]
        a1 == [ap EXCEPT !.app.lastTime = timestamp,
                         !.rs = run(sched, rs1),
                         !.app.frameCount = @ + 1]
    IN IF a1.app.running THEN scheduleFrame(a1) ELSE a1

\* App.run()
appRun(ap) ==
    LET a0 == IF "Time" \notin DOMAIN ap.rs.world.resources
              THEN [ap EXCEPT !.rs.world.resources = MapSet(@, "Time", NewTime)]
              ELSE ap
        a1 == runStartup(a0)
    IN scheduleFrame([a1 EXCEPT !.app.running = TRUE, !.app.lastTime = 0])

\* App.stop()
appStop(ap) ==
    IF ap.app.rafId # 0
    THEN [ap EXCEPT !.app.running = FALSE,
                    !.animationFrames = cancelAnimationFrame(@, ap.app.rafId),
                    !.app.rafId = 0]
    ELSE [ap EXCEPT !.app.running = FALSE]

\* App.reset()
appReset(ap) ==
    LET a0 == appStop(ap)
        a1 == [a0 EXCEPT !.rs.world = clear(@),
                         !.app.startupComplete = FALSE,
                         !.app.frameCount = 0,
                         !.app.lastTime = 0]
        a2 == [a1 EXCEPT !.rs.world.resources = MapSet(@, "Time", NewTime)]
        a3 == runStartup([a2 EXCEPT !.rs.trace = Append(@, ResetEvent(ap.rs.world, a2.rs.world))])
    IN scheduleFrame([a3 EXCEPT !.app.running = TRUE])

\* App.update()
appUpdate(sched, ap) ==
    LET a0 == IF ~ap.app.startupComplete THEN runStartup(ap) ELSE ap
    IN [a0 EXCEPT !.rs = run(sched, [@ EXCEPT !.trace = Append(@, RunEvent(a0.rs.world))])]

\* ---------------------------------------------------------------- Archetypes
\* EMPTY_ARCHETYPE_ID
EMPTY_ARCHETYPE_ID == 0

\* The component classes given to the archetypes, in the order sort() puts their names.
ArchetypeComps == <<"A", "B">>

\* The lists of component classes passed to getOrCreate: of up to two classes, in any
\* order, a class repeated or not.
ClassLists ==
    {<<>>} \cup {<<ArchetypeComps[i]>> : i \in 1..Len(ArchetypeComps)}
           \cup {<<ArchetypeComps[i], ArchetypeComps[j]>> :
                    i \in 1..Len(ArchetypeComps), j \in 1..Len(ArchetypeComps)}

\* The component ids of a list of classes, as a set.
IdSet(componentClasses) == {componentClasses[i] : i \in 1..Len(componentClasses)}

RECURSIVE sortFrom(_, _)
\* list.sort(), names taken in the order of ArchetypeComps from position k on
sortFrom(list, k) ==
    IF k > Len(ArchetypeComps) THEN <<>>
    ELSE SelectSeq(list, LAMBDA x : x = ArchetypeComps[k]) \o sortFrom(list, k + 1)

\* createSignature that joins the names in the order given
createSignatureUnsorted(componentClasses) == componentClasses

\* Archetypes.createSignature(componentClasses): the names sorted and joined; the
\* sorted list stands for the joined string.
createSignature(componentClasses) == sortFrom(componentClasses, 1)

RECURSIVE addColumns(_, _)
\* The columns of a new Table after addColumn for each class: a class already there
\* adds none.
addColumns(columns, componentClasses) ==
    IF componentClasses = <<>> THEN columns
    ELSE addColumns(IF \E i \in 1..Len(columns) : columns[i] = Head(componentClasses)
                    THEN columns
                    ELSE Append(columns, Head(componentClasses)),
                    Tail(componentClasses))

\* new Archetype(id, componentClasses)
Archetype(id, componentClasses) ==
    [id |-> id, componentIds |-> IdSet(componentClasses),
     columns |-> addColumns(<<>>, componentClasses), entities |-> <<>>, edges |-> EmptyMap]

\* new Archetypes(): the empty archetype, and an empty signature cache.
NewArchetypes ==
    [archetypes |-> <<Archetype(EMPTY_ARCHETYPE_ID, <<>>)>>, signatureCache |-> EmptyMap]

\* Archetypes.get(id) is defined; ids count from 0.
archetypeDefined(ar, id) == id + 1 \in 1..Len(ar.archetypes)

\* Archetypes.get(id), for an id that is defined
archetypeGet(ar, id) == ar.archetypes[id + 1]

\* Archetype.setEdge(compId, add, remove) with add given
setEdgeAdd(archetype, compId, target) ==
    LET edge == IF compId \in DOMAIN archetype.edges THEN archetype.edges[compId]
                ELSE EmptyMap
    IN [archetype EXCEPT !.edges = MapSet(@, compId, MapSet(edge, "add", target))]

\* Archetype.setEdge(compId, add, remove) with remove given
setEdgeRemove(archetype, compId, target) ==
    LET edge == IF compId \in DOMAIN archetype.edges THEN archetype.edges[compId]
                ELSE EmptyMap
    IN [archetype EXCEPT !.edges = MapSet(@, compId, MapSet(edge, "remove", target))]

\* Archetypes.componentDiff(from, to)
componentDiff(from, to) == [added |-> to \ from, removed |-> from \ to]

RECURSIVE updateEdgesFrom(_, _, _)
\* The loop of updateEdges over the archetypes from position k on; list[new] is the
\* archetype just created.
updateEdgesFrom(list, new, k) ==
    IF k > Len(list) THEN list
    ELSE IF k = new THEN updateEdgesFrom(list, new, k + 1)
    ELSE LET diff == componentDiff(list[k].componentIds, list[new].componentIds)
             l1 == IF Cardinality(diff.added) = 1 /\ Cardinality(diff.removed) = 0
                   THEN LET addedComp == CHOOSE c \in diff.added : TRUE
                        IN [list EXCEPT
                               ![k] = setEdgeAdd(@, addedComp, list[new].id),
                               ![new] = setEdgeRemove(@, addedComp, list[k].id)]
                   ELSE list
             diffReverse == componentDiff(l1[new].componentIds, l1[k].componentIds)
             l2 == IF Cardinality(diffReverse.added) = 1
                      /\ Cardinality(diffReverse.removed) = 0
                   THEN LET addedComp == CHOOSE c \in diffReverse.added : TRUE
                        IN [l1 EXCEPT
                               ![new] = setEdgeAdd(@, addedComp, l1[k].id),
                               ![k] = setEdgeRemove(@, addedComp, l1[new].id)]
                   ELSE l1
         IN updateEdgesFrom(l2, new, k + 1)

\* Archetypes.getOrCreate(componentClasses): the registry afterwards and the id of the
\* archetype returned.
getOrCreate(ar, componentClasses) ==
    LET signature == createSignature(componentClasses)
        id == Len(ar.archetypes)
    IN IF signature \in DOMAIN ar.signatureCache
       THEN [archetypes |-> ar, result |-> ar.signatureCache[signature], defined |-> TRUE]
       ELSE [archetypes |->
                [archetypes |->
                    updateEdgesFrom(Append(ar.archetypes, Archetype(id, componentClasses)),
                                    id + 1, 1),
                 signatureCache |-> MapSet(ar.signatureCache, signature, id)],
             result |-> id, defined |-> TRUE]

\* Archetypes.getArchetypeForAdd(currentId, componentClass), currentId a valid id. The
\* result is the id of the archetype returned; when this.archetypes[edge.add] is
\* undefined it is the id looked up, and defined is FALSE.
getArchetypeForAdd(ar, currentId, componentClass) ==
    LET current == archetypeGet(ar, currentId)
    IN IF componentClass \in current.componentIds
       THEN [archetypes |-> ar, result |-> current.id, defined |-> TRUE]
       ELSE IF componentClass \in DOMAIN current.edges
               /\ "add" \in DOMAIN current.edges[componentClass]
       THEN [archetypes |-> ar, result |-> current.edges[componentClass]["add"],
             defined |-> archetypeDefined(ar, current.edges[componentClass]["add"])]
       ELSE getOrCreate(ar, Append(current.columns, componentClass))

\* Archetypes.getArchetypeForRemove(currentId, componentClass), currentId a valid id
getArchetypeForRemove(ar, currentId, componentClass) ==
    LET current == archetypeGet(ar, currentId)
    IN IF componentClass \notin current.componentIds
       THEN [archetypes |-> ar, result |-> current.id, defined |-> TRUE]
       ELSE IF componentClass \in DOMAIN current.edges
               /\ "remove" \in DOMAIN current.edges[componentClass]
       THEN [archetypes |-> ar, result |-> current.edges[componentClass]["remove"],
             defined |-> archetypeDefined(ar, current.edges[componentClass]["remove"])]
       ELSE getOrCreate(ar, SelectSeq(current.columns, LAMBDA cls : cls # componentClass))

\* Archetypes.clear(): the empty archetype is kept, its entities and its table cleared
\* (its edges stay), and the cache is emptied.
archetypesClear(ar) ==
    [archetypes |-> <<[ar.archetypes[1] EXCEPT !.entities = <<>>, !.columns = <<>>]>>,
     signatureCache |-> EmptyMap]

\* ---------------------------------------------------------------- ObserverRegistry
\* enum ObserverTrigger, the members the model uses
ObserverTriggers == {"OnAdd", "OnRemove"}

\* The descriptors registered: a component class, a trigger, and for the class A a
\* priority that is absent or 1 (an absent priority is 0).
ObserverDescriptors ==
    [componentClass : Comps, trigger : ObserverTriggers]
        \cup [componentClass : {"A"}, trigger : ObserverTriggers, priority : {1}]

\* An ObserverRegistry after construction: no list of observers.
NewObserverRegistry == EmptyMap

\* ObserverRegistry.getKey(componentClass, trigger): the pair stands for the string
\* `${componentClass.name}:${trigger}`.
getKey(componentClass, trigger) == <<componentClass, trigger>>

\* new Observer(descriptor); ref stands for the identity of the observer and of its
\* callback.
Observer(descriptor, ref) ==
    [ref |-> ref, componentClass |-> descriptor.componentClass,
     trigger |-> descriptor.trigger,
     priority |-> IF "priority" \in DOMAIN descriptor THEN descriptor.priority ELSE 0]

\* list.sort that leaves the list as it is
sortKeepsOrder(list) == list

RECURSIVE sortByPriority(_)
\* list.sort((a, b) => b.priority - a.priority): the sort is stable, so observers of
\* one priority keep their order.
sortByPriority(list) ==
    IF list = <<>> THEN <<>>
    ELSE LET top == CHOOSE p \in {list[i].priority : i \in 1..Len(list)} :
                        \A i \in 1..Len(list) : list[i].priority <= p
         IN SelectSeq(list, LAMBDA o : o.priority = top)
                \o sortByPriority(SelectSeq(list, LAMBDA o : o.priority # top))

\* ObserverRegistry.register(descriptor): the registry afterwards
register(reg, descriptor, ref) ==
    LET key == getKey(descriptor.componentClass, descriptor.trigger)
        list == IF key \in DOMAIN reg THEN reg[key] ELSE <<>>
    IN MapSet(reg, key, sortByPriority(Append(list, Observer(descriptor, ref))))

\* trigger that stops after the first observer
triggerFirst(reg, trig, componentClass) ==
    LET key == getKey(componentClass, trig)
    IN IF key \notin DOMAIN reg THEN <<>>
       ELSE SubSeq([i \in 1..Len(reg[key]) |-> reg[key][i].ref], 1, 1)

\* ObserverRegistry.trigger(trigger, entity, componentClass, component): the observers
\* whose callback is called, in the order of the calls.
trigger(reg, trig, componentClass) ==
    LET key == getKey(componentClass, trig)
    IN IF key \notin DOMAIN reg THEN <<>>
       ELSE [i \in 1..Len(reg[key]) |-> reg[key][i].ref]

\* ObserverRegistry.clearFor(componentClass, trigger)
clearFor(reg, componentClass, trig) == MapRemove(reg, getKey(componentClass, trig))

\* ---------------------------------------------------------------- Table
\* The component values the tables of the model hold.
TableVals == {"x", "y"}

\* The entities given a row: one handle for each id.
TableEntities == {[id |-> i, generation |-> 0] : i \in 0..(MaxRows - 1)}

\* new Table(): columns by component class name, the entity of each row, and the row
\* of each entity id. A row r of the code is the place r + 1 of a sequence.
NewTable == [columns |-> EmptyMap, entities |-> <<>>, entityToRow |-> EmptyMap]

\* TableColumn.get(row): data[row], undefined at a hole and past the end
columnGet(data, row) == IF row + 1 \in 1..Len(data) THEN data[row + 1] ELSE None

\* TableColumn.set(row, value): data[row] = value, which lengthens the array and leaves
\* holes when row is past its end
columnSet(data, row, value) ==
    [i \in 1..(IF row + 1 > Len(data) THEN row + 1 ELSE Len(data)) |->
        IF i = row + 1 THEN value ELSE IF i <= Len(data) THEN data[i] ELSE None]

\* TableColumn.swapRemove(row): the data afterwards
swapRemove(data, row) ==
    IF row >= Len(data) THEN data
    ELSE LET lastIndex == Len(data) - 1
             moved == IF row # lastIndex
                      THEN [data EXCEPT ![row + 1] = data[lastIndex + 1]]
                      ELSE data
         IN SubSeq(moved, 1, lastIndex)

\* Table.allocateRow(entity)
allocateRow(t, entity) ==
    [t EXCEPT !.entities = Append(@, entity),
              !.entityToRow = MapSet(@, entity.id, Len(t.entities))]

\* Table.getComponent(entityId, componentClass)
tableGetComponent(t, entityId, componentClass) ==
    IF entityId \notin DOMAIN t.entityToRow THEN None
    ELSE IF componentClass \notin DOMAIN t.columns THEN None
    ELSE columnGet(t.columns[componentClass], t.entityToRow[entityId])

\* Table.setComponent(entityId, componentClass, value): the Table afterwards
tableSetComponent(t, entityId, componentClass, value) ==
    IF entityId \notin DOMAIN t.entityToRow THEN t
    ELSE LET data == IF componentClass \in DOMAIN t.columns
                     THEN t.columns[componentClass] ELSE <<>>
         IN [t EXCEPT !.columns =
                MapSet(@, componentClass,
                       columnSet(data, t.entityToRow[entityId], value))]

\* Table.removeEntity(entityId): the Table afterwards
tableRemoveEntity(t, entityId) ==
    IF entityId \notin DOMAIN t.entityToRow THEN t
    ELSE LET row == t.entityToRow[entityId]
             lastRow == Len(t.entities) - 1
             lastEntity == t.entities[lastRow + 1]
             swapped == [c \in DOMAIN t.columns |-> swapRemove(t.columns[c], row)]
             moved == IF row # lastRow
                      THEN [t.entities EXCEPT ![row + 1] = lastEntity]
                      ELSE t.entities
             rows == IF row # lastRow
                     THEN MapSet(t.entityToRow, lastEntity.id, row)
                     ELSE t.entityToRow
         IN [columns |-> swapped,
             entities |-> SubSeq(moved, 1, lastRow),
             entityToRow |-> MapRemove(rows, entityId)]

\* ---------------------------------------------------------------- SparseSet
\* The entity ids given to a SparseSet.
SparseIds == 0..(MaxIds - 1)

\* The values a SparseSet of the model holds.
SparseVals == {"x", "y"}

\* new SparseSet(): sparse maps an id to an index of dense and entities. An index i of
\* the code is the place i + 1 of a sequence.
NewSparseSet == [sparse |-> EmptyMap, dense |-> <<>>, entities |-> <<>>]

\* SparseSet.insert(entityId, value)
insert(s, entityId, value) ==
    IF entityId \in DOMAIN s.sparse
    THEN [s EXCEPT !.dense[s.sparse[entityId] + 1] = value]
    ELSE [sparse |-> MapSet(s.sparse, entityId, Len(s.dense)),
          dense |-> Append(s.dense, value),
          entities |-> Append(s.entities, entityId)]

\* SparseSet.get(entityId): this.dense[index], undefined past the end
get(s, entityId) ==
    IF entityId \notin DOMAIN s.sparse THEN None
    ELSE IF s.sparse[entityId] + 1 \in 1..Len(s.dense) THEN s.dense[s.sparse[entityId] + 1]
    ELSE None

\* SparseSet.has(entityId)
has(s, entityId) == entityId \in DOMAIN s.sparse

\* SparseSet.len()
len(s) == Len(s.dense)

\* remove that does not record the new index of the element it moves
removeKeepsIndex(s, entityId) ==
    IF entityId \notin DOMAIN s.sparse THEN [set |-> s, result |-> FALSE]
    ELSE LET index == s.sparse[entityId]
             lastIndex == Len(s.dense) - 1
         IN [set |-> [sparse |-> MapRemove(s.sparse, entityId),
                      dense |-> SubSeq(IF index # lastIndex
                                       THEN [s.dense EXCEPT ![index + 1] = s.dense[lastIndex + 1]]
                                       ELSE s.dense, 1, lastIndex),
                      entities |-> SubSeq(IF index # lastIndex
                                          THEN [s.entities EXCEPT
                                                   ![index + 1] = s.entities[lastIndex + 1]]
                                          ELSE s.entities, 1, lastIndex)],
             result |-> TRUE]

\* remove that drops the last element whatever the index of the entity
removeDropsLast(s, entityId) ==
    IF entityId \notin DOMAIN s.sparse THEN [set |-> s, result |-> FALSE]
    ELSE LET lastIndex == Len(s.dense) - 1
         IN [set |-> [sparse |-> MapRemove(s.sparse, s.entities[lastIndex + 1]),
                      dense |-> SubSeq(s.dense, 1, lastIndex),
                      entities |-> SubSeq(s.entities, 1, lastIndex)],
             result |-> TRUE]

\* SparseSet.remove(entityId): the set afterwards and the boolean returned
remove(s, entityId) ==
    IF entityId \notin DOMAIN s.sparse THEN [set |-> s, result |-> FALSE]
    ELSE LET index == s.sparse[entityId]
             lastIndex == Len(s.dense) - 1
             lastEntityId == s.entities[lastIndex + 1]
             swapped == IF index # lastIndex
                        THEN [sparse |-> MapSet(s.sparse, lastEntityId, index),
                              dense |-> [s.dense EXCEPT ![index + 1] = s.dense[lastIndex + 1]],
                              entities |-> [s.entities EXCEPT ![index + 1] = lastEntityId]]
                        ELSE s
         IN [set |-> [sparse |-> MapRemove(swapped.sparse, entityId),
                      dense |-> SubSeq(swapped.dense, 1, lastIndex),
                      entities |-> SubSeq(swapped.entities, 1, lastIndex)],
             result |-> TRUE]

\* SparseSet.clear()
sparseClear(s) == NewSparseSet

\* ---------------------------------------------------------------- Mut
\* The entity ids of a ChangeDetectionStorage.
MutIds == {0, 1}

\* new ChangeDetectionStorage()
NewChangeDetectionStorage == [data |-> EmptyMap, ticks |-> EmptyMap]

\* ChangeDetectionStorage.insert(entityId, component, tick)
changeInsert(s, entityId, component, tick) ==
    [data |-> MapSet(s.data, entityId, component),
     ticks |-> MapSet(s.ticks, entityId, ComponentTicks(tick))]

\* ChangeDetectionStorage.has(entityId)
changeHas(s, entityId) == entityId \in DOMAIN s.data

\* new Mut(value, ticks, currentTick). The Mut holds the ComponentTicks object of the
\* entity, which is the entry of s.ticks as long as the component is neither removed
\* nor inserted again, and the object of s.data until set() gives it another value.
Mut(entityId, tick) == [entityId |-> entityId, shared |-> TRUE, value |-> None, currentTick |-> tick]

\* ChangeDetectionStorage.getMut(entityId, currentTick)
changeGetMut(s, entityId, tick) ==
    IF entityId \notin DOMAIN s.data \/ entityId \notin DOMAIN s.ticks
    THEN None
    ELSE Mut(entityId, tick)

\* this.value of a Mut
mutValue(s, m) == IF m.shared THEN s.data[m.entityId] ELSE m.value

\* this.ticks.setChanged(this.currentTick)
mutSetChanged(s, m) == [s EXCEPT !.ticks[m.entityId] = setChanged(@, m.currentTick)]

\* Mut.get()
mutGet(s, m) == [storage |-> s, mut |-> m, result |-> mutValue(s, m)]

\* Mut.bypass()
mutBypass(s, m) == [storage |-> s, mut |-> m, result |-> mutValue(s, m)]

\* Mut.getMut()
mutGetMut(s, m) == [storage |-> mutSetChanged(s, m), mut |-> m, result |-> mutValue(s, m)]

\* Mut.set(newValue)
mutSet(s, m, newValue) ==
    [storage |-> mutSetChanged(s, m),
     mut |-> [m EXCEPT !.shared = FALSE, !.value = newValue],
     result |-> None]

\* Mut.update(updater), the updater writing newValue into the object it is given.
mutUpdate(s, m, newValue) ==
    [storage |-> mutSetChanged(IF m.shared THEN [s EXCEPT !.data[m.entityId] = newValue] ELSE s, m),
     mut |-> IF m.shared THEN m ELSE [m EXCEPT !.value = newValue],
     result |-> None]

\* The methods of Mut that read and that write.
MutReads == {"get", "bypass"}
MutWrites == {"getMut", "set", "update"}

\* m.<method>(newValue)
mutCall(s, m, method, newValue) ==
    CASE method = "get" -> mutGet(s, m)
      [] method = "bypass" -> mutBypass(s, m)
      [] method = "getMut" -> mutGetMut(s, m)
      [] method = "set" -> mutSet(s, m, newValue)
      [] method = "update" -> mutUpdate(s, m, newValue)

\* ---------------------------------------------------------------- initial state
Init ==
    /\ entityAllocator = NewEntityAllocator
    /\ storages = EmptyMap
    /\ resources = EmptyMap
    /\ commands = NewCommands
    /\ schedule = NewSchedule
    /\ events = NewEvents
    /\ readers = [r \in Readers |-> -1]
    /\ eventLog = [count |-> 0, sent |-> <<>>, received |-> [r \in Readers |-> <<>>]]
    /\ currentTick = 0
    /\ lastRun = [q \in Queries |-> 0]
    /\ iterator = <<>>
    /\ app = NewApp
    /\ animationFrames = NewAnimationFrames
    /\ archetypes = NewArchetypes
    /\ observers = NewObserverRegistry
    /\ observerLog = [registrations |-> 0, triggers |-> 0, registered |-> {},
                      invocations |-> EmptyMap, due |-> EmptyMap]
    /\ table = NewTable
    /\ tableLog = EmptyMap
    /\ sparseSet = NewSparseSet
    /\ changeDetection = NewChangeDetectionStorage
    /\ muts = {}
    /\ issued = {}
    /\ despawned = {}
    /\ program = <<>>
    /\ ret = [op |-> "new"]

\* world.spawn()
Spawn ==
    LET a == allocate(entityAllocator)
        w == [World EXCEPT !.entityAllocator = a.ea]
    IN /\ InBounds(w, issued \cup {a.entity})
       /\ SetWorld(w)
       /\ issued' = issued \cup {a.entity}
       /\ ret' = [op |-> "spawn", entity |-> a.entity,
                  reused |-> \E h \in issued : h.id = a.entity.id]
       /\ UNCHANGED <<outsideWorld, despawned, program>>

\* world.despawn(entity)
Despawn(entity) ==
    LET d == despawn(World, entity)
    IN /\ SetWorld(d.world)
       /\ despawned' = IF d.result THEN despawned \cup {entity} ELSE despawned
       /\ ret' = [op |-> "despawn", entity |-> entity, result |-> d.result]
       /\ UNCHANGED <<outsideWorld, issued, program>>

\* world.clear()
WorldClear ==
    /\ SetWorld(clear(World))
    /\ program' = <<>>
    /\ ret' = [op |-> "clear"]
    /\ UNCHANGED <<outsideWorld, issued, despawned>>

\* world.insertComponent(entity, component), also EntityBuilder.insert(component)
InsertComponent(entity, component) ==
    /\ SetWorld(insertComponent(World, entity, component))
    /\ ret' = [op |-> "insertComponent"]
    /\ UNCHANGED <<outsideWorld, issued, despawned, program>>

\* world.getComponent(entity, componentClass)
GetComponent(entity, componentClass) ==
    /\ SetWorld(getComponent(World, entity, componentClass).world)
    /\ ret' = [op |-> "getComponent"]
    /\ UNCHANGED <<outsideWorld, issued, despawned, program>>

\* world.hasComponent(entity, componentClass)
HasComponent(entity, componentClass) ==
    /\ SetWorld(hasComponent(World, entity, componentClass).world)
    /\ ret' = [op |-> "hasComponent"]
    /\ UNCHANGED <<outsideWorld, issued, despawned, program>>

\* world.removeComponent(entity, componentClass)
RemoveComponent(entity, componentClass) ==
    /\ SetWorld(removeComponent(World, entity, componentClass).world)
    /\ ret' = [op |-> "removeComponent"]
    /\ UNCHANGED <<outsideWorld, issued, despawned, program>>

\* world.getCommands().spawn().insert(...)...onSpawn(callback)
CommandsSpawn(components, callback) ==
    LET w == [World EXCEPT !.commands = commandsSpawn(@, components, callback)]
    IN /\ InBounds(w, issued)
       /\ SetWorld(w)
       /\ program' = Append(program, [type |-> "SpawnEntity", components |-> components,
                                      callback |-> callback])
       /\ ret' = [op |-> "commands"]
       /\ UNCHANGED <<outsideWorld, issued, despawned>>

\* A command pushed onto the queue by one of the Commands methods.
Queue(cm) ==
    LET w == [World EXCEPT !.commands = cm]
    IN /\ InBounds(w, issued)
       /\ SetWorld(w)
       /\ program' = Append(program, cm.queue[Len(cm.queue)])
       /\ ret' = [op |-> "commands"]
       /\ UNCHANGED <<outsideWorld, issued, despawned>>

\* world.getCommands().despawn(entity)
CommandsDespawn(entity) == Queue(commandsDespawn(commands, entity))

\* world.getCommands().insertComponent(entity, component)
CommandsInsertComponent(entity, component) ==
    Queue(commandsInsertComponent(commands, entity, component))

\* world.getCommands().removeComponent(entity, componentClass)
CommandsRemoveComponent(entity, componentClass) ==
    Queue(commandsRemoveComponent(commands, entity, componentClass))

\* world.getCommands().insertResource(resource)
CommandsInsertResource(resource) == Queue(commandsInsertResource(commands, resource))

\* world.getCommands().removeResource(resourceClass)
CommandsRemoveResource(resourceClass) ==
    Queue(commandsRemoveResource(commands, resourceClass))

\* world.applyCommands(). The value returned to the history variable ret tells, of
\* the call: whether the commands were applied in the order the program issued
\* them; the handles spawned whose onSpawn callback queued their despawn; and, of
\* each command applied, its type, whether its target was alive when it was applied,
\* and whether it changed the entity allocator or a component storage.
ApplyCommands ==
    \E w \in {applyCommands(World)} :
    \E steps \in {applySteps([World EXCEPT !.commands = drain(commands).commands],
                             drain(commands).list)} :
        LET each == 1..Len(steps)
            spawns == {i \in each : steps[i].command.type = "SpawnEntity"}
            despawns == {i \in each :
                            steps[i].command.type = "DespawnEntity" /\ steps[i].alive}
        IN /\ InBounds(w, issued \cup {steps[i].spawned : i \in spawns})
           /\ SetWorld(w)
           /\ issued' = issued \cup {steps[i].spawned : i \in spawns}
           /\ despawned' = despawned \cup {steps[i].command.entity : i \in despawns}
           /\ program' = w.commands.queue
           /\ ret' = [op |-> "applyCommands",
                      fifo |-> [i \in each |-> steps[i].command] = program,
                      spawnedThenDespawned |->
                          {steps[i].spawned :
                              i \in {j \in spawns : steps[j].command.callback = "despawn"}},
                      applied |-> {[type |-> steps[i].command.type,
                                    alive |-> steps[i].alive,
                                    changed |-> steps[i].changed] : i \in each}]
           /\ UNCHANGED outsideWorld

\* schedule.addSystem(descriptor)
AddSystem(descriptor) ==
    /\ systemCount(schedule) < MaxSystems
    /\ schedule' = addSystem(schedule, descriptor)
    /\ ret' = [op |-> "addSystem"]
    /\ UNCHANGED <<worldVars, issued, despawned, program, outsideSchedule>>

\* schedule.run(world). The value returned to the history variable ret is the
\* history of the run: a SystemEvent for each call of runSystem and an ApplyEvent
\* for each applyCommands() of runStage, in the order they happened.
Run ==
    \E r \in {run(schedule, [world |-> World, issued |-> issued, despawned |-> despawned,
                             trace |-> <<>>])} :
        /\ InBounds(r.world, r.issued)
        /\ SetWorld(r.world)
        /\ issued' = r.issued
        /\ despawned' = r.despawned
        /\ program' = r.world.commands.queue
        /\ ret' = [op |-> "run", trace |-> r.trace]
        /\ UNCHANGED <<schedule, outsideSchedule>>

\* events.send(event)
EventsSend(event) ==
    /\ events.nextId < MaxEvents
    /\ events' = send(events, event)
    /\ eventLog' = [eventLog EXCEPT !.sent = Append(@, [event |-> event,
                                                        updates |-> eventLog.count])]
    /\ ret' = [op |-> "send", id |-> events.nextId]
    /\ UNCHANGED <<worldVars, issued, despawned, program, schedule, outsideEvents,
                 readers>>

\* events.update(tick)
EventsUpdate ==
    /\ eventLog.count < MaxUpdates
    /\ events' = update(events, eventLog.count + 1)
    /\ eventLog' = [eventLog EXCEPT !.count = @ + 1]
    /\ ret' = [op |-> "update"]
    /\ UNCHANGED <<worldVars, issued, despawned, program, schedule, outsideEvents,
                 readers>>

\* for (const event of events.iter()) ...
EventsIter ==
    /\ ret' = [op |-> "iter", yielded |-> iter(events)]
    /\ UNCHANGED <<worldVars, issued, despawned, program, schedule, outsideEvents,
                 eventVars>>

\* for (const event of reader.iter(events)) ...
ReaderIter(reader) ==
    \E r \in {readerIter(readers[reader], events)} :
        /\ readers' = [readers EXCEPT ![reader] = r.lastSeen]
        /\ eventLog' = [eventLog EXCEPT !.received[reader] =
                            @ \o [i \in 1..Len(r.yielded) |-> r.yielded[i][1]]]
        /\ ret' = [op |-> "readerIter", reader |-> reader, yielded |-> r.yielded]
        /\ UNCHANGED <<worldVars, issued, despawned, program, schedule, outsideEvents,
                 events>>

\* for (const event of reader.peek(events)) ...
ReaderPeek(reader) ==
    /\ ret' = [op |-> "peek", reader |-> reader, yielded |-> peek(readers[reader], events)]
    /\ UNCHANGED <<worldVars, issued, despawned, program, schedule, outsideEvents,
                 eventVars>>

\* reader.hasUnread(events)
ReaderHasUnread(reader) ==
    /\ ret' = [op |-> "hasUnread", reader |-> reader,
               result |-> hasUnread(readers[reader], events)]
    /\ UNCHANGED <<worldVars, issued, despawned, program, schedule, outsideEvents,
                 eventVars>>

\* ---------------------------------------------------------------- queries
\* world.spawn().insert(c1).insert(c2)...: the EntityBuilder gives every component to
\* the handle just allocated. The model issues at most `most` handles.
SpawnInsert(components, most) ==
    LET a == allocate(entityAllocator)
        w == insertAll([World EXCEPT !.entityAllocator = a.ea], a.entity, components)
    IN /\ Cardinality(issued \cup {a.entity}) <= most
       /\ SetWorld(w)
       /\ issued' = issued \cup {a.entity}
       /\ ret' = [op |-> "spawnInsert", entity |-> a.entity, components |-> components]
       /\ UNCHANGED <<outsideWorld, despawned, program>>

\* registry.incrementTick()
IncrementTick ==
    /\ currentTick < MaxTick
    /\ currentTick' = incrementTick(currentTick)
    /\ ret' = [op |-> "incrementTick"]
    /\ UNCHANGED <<worldVars, schedule, eventVars, appVars, libraryVars, lastRun, iterator, issued, despawned,
                   program>>

\* registry.getStorage(C).insert(entity.id, component, registry.getTick())
StorageInsert(entity, component) ==
    LET sts == getStorage(storages, component.class)
    IN /\ storages' = [sts EXCEPT ![component.class] =
                          storageInsert(@, entity.id, component.value, getTick(currentTick))]
       /\ ret' = [op |-> "storageInsert", entity |-> entity, class |-> component.class]
       /\ UNCHANGED <<entityAllocator, resources, commands, outsideWorld, issued, despawned,
                      program>>

\* new Mut(storage.get(id), storage.getTicks(id), registry.getTick()).set(value), for
\* an entity that has the component.
MutSet(entity, component) ==
    /\ component.class \in DOMAIN storages
    /\ storageHas(storages[component.class], entity.id)
    /\ storages' = [storages EXCEPT ![component.class] =
                       [storage |-> MapSet(@.storage, entity.id, component.value),
                        ticks |-> [@.ticks EXCEPT ![entity.id] = setChanged(@, getTick(currentTick))]]]
    /\ ret' = [op |-> "mutSet", entity |-> entity, class |-> component.class]
    /\ UNCHANGED <<entityAllocator, resources, commands, outsideWorld, issued, despawned,
                   program>>

\* query.toArray(): the generator of iter() runs to its end.
QueryToArray(q) ==
    \E r \in {toArray(World, q, getTick(currentTick), lastRun[q])} :
        /\ storages' = r.storages
        /\ lastRun' = updateLastRun(lastRun, q, getTick(currentTick))
        /\ ret' = [op |-> "toArray", query |-> q, yielded |-> r.yielded,
                   lastRun |-> lastRun[q]]
        /\ UNCHANGED <<entityAllocator, resources, commands, schedule, eventVars, appVars, libraryVars, currentTick,
                       iterator, issued, despawned, program>>

\* query.single(): the loop returns at the first yield, which ends the generator before
\* the statement after its loop; with nothing to yield the generator runs to its end.
QuerySingle(q) ==
    \E n \in {queryNext(storages, entities(World), q, getTick(currentTick), lastRun[q])} :
        /\ storages' = n.storages
        /\ lastRun' = IF n.done THEN updateLastRun(lastRun, q, getTick(currentTick)) ELSE lastRun
        /\ ret' = [op |-> "single", query |-> q, done |-> n.done, value |-> n.value,
                   lastRun |-> lastRun[q]]
        /\ UNCHANGED <<entityAllocator, resources, commands, schedule, eventVars, appVars, libraryVars, currentTick,
                       iterator, issued, despawned, program>>

\* query.isEmpty(): as single(), and the result is whether nothing was yielded.
QueryIsEmpty(q) ==
    \E n \in {queryNext(storages, entities(World), q, getTick(currentTick), lastRun[q])} :
        /\ storages' = n.storages
        /\ lastRun' = IF n.done THEN updateLastRun(lastRun, q, getTick(currentTick)) ELSE lastRun
        /\ ret' = [op |-> "isEmpty", query |-> q, done |-> n.done, result |-> n.done,
                   lastRun |-> lastRun[q]]
        /\ UNCHANGED <<entityAllocator, resources, commands, schedule, eventVars, appVars, libraryVars, currentTick,
                       iterator, issued, despawned, program>>

\* What a next() of a generator of iter() does to the query and to the caller.
Resume(it, n) ==
    /\ storages' = n.storages
    /\ lastRun' = IF n.done THEN updateLastRun(lastRun, it.query, it.currentTick)
                  ELSE lastRun
    /\ iterator' = IF n.done THEN <<>> ELSE <<[it EXCEPT !.left = n.left]>>
    /\ ret' = [op |-> "next", query |-> it.query, done |-> n.done, value |-> n.value]
    /\ UNCHANGED <<entityAllocator, resources, commands, schedule, eventVars, appVars, libraryVars, currentTick, issued,
                   despawned, program>>

\* `for (const result of query.iter())` is entered: iter() and the first next(), which
\* reads the entities alive, the tick and lastRun, and goes to the first yield.
IterStart(q) ==
    /\ iterator = <<>>
    /\ LET it == [query |-> q, left |-> entities(World), currentTick |-> getTick(currentTick),
                  lastRun |-> lastRun[q]]
       IN \E n \in {queryNext(storages, it.left, q, it.currentTick, it.lastRun)} :
              Resume(it, n)

\* The body of the loop is done and the loop calls next() again.
IterNext ==
    /\ iterator # <<>>
    /\ LET it == iterator[1]
       IN \E n \in {queryNext(storages, it.left, it.query, it.currentTick, it.lastRun)} :
              Resume(it, n)

\* The body of the loop leaves it (break or return): the generator is ended where it is.
IterReturn ==
    /\ iterator # <<>>
    /\ iterator' = <<>>
    /\ ret' = [op |-> "return"]
    /\ UNCHANGED <<worldVars, schedule, eventVars, appVars, libraryVars, currentTick, lastRun, issued, despawned, program>>

\* ---------------------------------------------------------------- calls on the App
\* The App at work in the current state.
AppNow ==
    [app |-> app, animationFrames |-> animationFrames,
     rs |-> [world |-> World, issued |-> issued, despawned |-> despawned, trace |-> <<>>]]

\* The state after a call on the App, and what the call returns to the history.
SetApp(ap, op) ==
    /\ InBounds(ap.rs.world, ap.rs.issued)
    /\ ap.animationFrames.last <= MaxFrames
    /\ app' = ap.app
    /\ animationFrames' = ap.animationFrames
    /\ SetWorld(ap.rs.world)
    /\ issued' = ap.rs.issued
    /\ despawned' = ap.rs.despawned
    /\ program' = ap.rs.world.commands.queue
    /\ ret' = [op |-> op, trace |-> ap.rs.trace]
    /\ UNCHANGED <<schedule, eventVars, queryVars, libraryVars>>

\* app.addStartupSystem(fn)
AddStartupSystem(fn) ==
    /\ Len(app.startupSystems) < MaxStartup
    /\ app' = [app EXCEPT !.startupSystems = Append(@, fn)]
    /\ ret' = [op |-> "addStartupSystem"]
    /\ UNCHANGED <<worldVars, schedule, eventVars, queryVars, libraryVars, animationFrames, issued,
                   despawned, program>>

\* app.onFrame(callback)
OnFrame(callback) ==
    /\ Len(app.frameCallbacks) < MaxStartup
    /\ app' = [app EXCEPT !.frameCallbacks = Append(@, callback)]
    /\ ret' = [op |-> "onFrame"]
    /\ UNCHANGED <<worldVars, schedule, eventVars, queryVars, libraryVars, animationFrames, issued,
                   despawned, program>>

\* app.run()
AppRun == \E ap \in {appRun(AppNow)} : SetApp(ap, "run")

\* The browser calls the callback of a pending animation frame: app.runFrame(timestamp).
AppRunFrame(id, timestamp) ==
    /\ id \in animationFrames.pending
    /\ \E ap \in {runFrame(schedule,
                           [AppNow EXCEPT !.animationFrames =
                               cancelAnimationFrame(@, id)],
                           timestamp)} :
           SetApp(ap, "runFrame")

\* app.stop()
AppStop == \E ap \in {appStop(AppNow)} : SetApp(ap, "stop")

\* app.reset()
AppReset == \E ap \in {appReset(AppNow)} : SetApp(ap, "reset")

\* app.update()
AppUpdate == \E ap \in {appUpdate(schedule, AppNow)} : SetApp(ap, "update")

\* ---------------------------------------------------------------- calls on the Archetypes
\* What the calls on the Archetypes leave alone.
outsideArchetypes ==
    <<worldVars, schedule, eventVars, queryVars, appVars, observerVars, tableVars, sparseSet,
      mutVars, issued, despawned, program>>

\* The state after a call on the Archetypes that returns an archetype.
SetArchetypes(op, r) ==
    /\ Len(r.archetypes.archetypes) <= MaxArchetypes
    /\ archetypes' = r.archetypes
    /\ ret' = [op |-> op, result |-> r.result, defined |-> r.defined,
               created |-> Len(r.archetypes.archetypes) - Len(archetypes.archetypes)]
    /\ UNCHANGED outsideArchetypes

\* archetypes.getOrCreate(componentClasses)
GetOrCreate(componentClasses) ==
    \E r \in {getOrCreate(archetypes, componentClasses)} : SetArchetypes("getOrCreate", r)

\* archetypes.getArchetypeForAdd(currentId, componentClass)
GetArchetypeForAdd(currentId, componentClass) ==
    /\ archetypeDefined(archetypes, currentId)
    /\ \E r \in {getArchetypeForAdd(archetypes, currentId, componentClass)} :
           SetArchetypes("getArchetypeForAdd", r)

\* archetypes.getArchetypeForRemove(currentId, componentClass)
GetArchetypeForRemove(currentId, componentClass) ==
    /\ archetypeDefined(archetypes, currentId)
    /\ \E r \in {getArchetypeForRemove(archetypes, currentId, componentClass)} :
           SetArchetypes("getArchetypeForRemove", r)

\* archetypes.clear()
ArchetypesClear ==
    /\ archetypes' = archetypesClear(archetypes)
    /\ ret' = [op |-> "archetypesClear"]
    /\ UNCHANGED outsideArchetypes

\* ---------------------------------------------------------------- calls on the ObserverRegistry
\* What the calls on the ObserverRegistry leave alone.
outsideObservers ==
    <<worldVars, schedule, eventVars, queryVars, appVars, archetypes, tableVars, sparseSet,
      mutVars, issued, despawned, program>>

\* registry.register(descriptor)
Register(descriptor) ==
    /\ observerLog.registrations < MaxObservers
    /\ LET ref == observerLog.registrations + 1
       IN /\ observers' = register(observers, descriptor, ref)
          /\ observerLog' =
                [observerLog EXCEPT
                    !.registrations = ref,
                    !.registered = @ \cup {Observer(descriptor, ref)},
                    !.invocations = MapSet(@, ref, 0),
                    !.due = MapSet(@, ref, 0)]
          /\ ret' = [op |-> "register", ref |-> ref]
    /\ UNCHANGED outsideObservers

\* registry.trigger(trig, entity, componentClass, component). The callbacks of the
\* model write what they are called with to the history and nothing else.
Trigger(trig, entity, componentClass) ==
    /\ observerLog.triggers < MaxTriggers
    /\ LET invoked == trigger(observers, trig, componentClass)
           Times(ref) == Cardinality({i \in 1..Len(invoked) : invoked[i] = ref})
       IN /\ observerLog' =
                [observerLog EXCEPT
                    !.triggers = @ + 1,
                    !.invocations = [ref \in DOMAIN @ |-> @[ref] + Times(ref)],
                    !.due = [ref \in DOMAIN @ |->
                                IF \E o \in observerLog.registered :
                                      /\ o.ref = ref
                                      /\ o.componentClass = componentClass
                                      /\ o.trigger = trig
                                THEN @[ref] + 1 ELSE @[ref]]]
          /\ ret' = [op |-> "trigger", trigger |-> trig, entity |-> entity,
                     componentClass |-> componentClass, invoked |-> invoked]
    /\ UNCHANGED <<observers, outsideObservers>>

\* registry.clear()
ObserversClear ==
    /\ observers' = NewObserverRegistry
    /\ observerLog' = [observerLog EXCEPT !.registered = {}]
    /\ ret' = [op |-> "observersClear"]
    /\ UNCHANGED outsideObservers

\* registry.clearFor(componentClass, trig)
ClearFor(componentClass, trig) ==
    /\ observers' = clearFor(observers, componentClass, trig)
    /\ observerLog' =
          [observerLog EXCEPT
              !.registered = {o \in @ : ~(o.componentClass = componentClass
                                           /\ o.trigger = trig)}]
    /\ ret' = [op |-> "clearFor"]
    /\ UNCHANGED outsideObservers

\* ---------------------------------------------------------------- calls on the Table
\* What the calls on the Table leave alone.
outsideTable ==
    <<worldVars, schedule, eventVars, queryVars, appVars, archetypes, observerVars, sparseSet,
      mutVars, issued, despawned, program>>

\* table.allocateRow(entity), for an entity that has no row
AllocateRow(entity) ==
    /\ entity.id \notin DOMAIN table.entityToRow
    /\ table' = allocateRow(table, entity)
    /\ tableLog' = MapSet(tableLog, entity.id, [c \in Comps |-> None])
    /\ ret' = [op |-> "allocateRow", entity |-> entity]
    /\ UNCHANGED outsideTable

\* table.setComponent(entityId, componentClass, value)
SetComponent(entityId, componentClass, value) ==
    /\ table' = tableSetComponent(table, entityId, componentClass, value)
    /\ tableLog' = IF entityId \in DOMAIN table.entityToRow
                   THEN [tableLog EXCEPT ![entityId][componentClass] = value]
                   ELSE tableLog
    /\ ret' = [op |-> "setComponent", result |-> entityId \in DOMAIN table.entityToRow]
    /\ UNCHANGED outsideTable

\* table.removeEntity(entityId)
RemoveEntity(entityId) ==
    /\ table' = tableRemoveEntity(table, entityId)
    /\ tableLog' = MapRemove(tableLog, entityId)
    /\ ret' = [op |-> "removeEntity", result |-> entityId \in DOMAIN table.entityToRow]
    /\ UNCHANGED outsideTable

\* ---------------------------------------------------------------- calls on the SparseSet
\* What the calls on the SparseSet leave alone.
outsideSparseSet ==
    <<worldVars, schedule, eventVars, queryVars, appVars, archetypes, observerVars, tableVars,
      mutVars, issued, despawned, program>>

outsideMut ==
    <<worldVars, schedule, eventVars, queryVars, appVars, archetypes, observerVars, tableVars,
      sparseSet, issued, despawned, program>>

\* set.insert(entityId, value)
SparseInsert(entityId, value) ==
    /\ sparseSet' = insert(sparseSet, entityId, value)
    /\ ret' = [op |-> "sparseInsert", entityId |-> entityId]
    /\ UNCHANGED outsideSparseSet

\* set.remove(entityId)
SparseRemove(entityId) ==
    /\ sparseSet' = remove(sparseSet, entityId).set
    /\ ret' = [op |-> "sparseRemove", entityId |-> entityId,
               result |-> remove(sparseSet, entityId).result]
    /\ UNCHANGED outsideSparseSet

\* set.clear()
SparseClear ==
    /\ sparseSet' = sparseClear(sparseSet)
    /\ ret' = [op |-> "sparseClear"]
    /\ UNCHANGED outsideSparseSet

\* ---------------------------------------------------------------- Mut
\* storage.insert(entityId, component, registry.getTick()) for an entity that has no
\* component yet.
ChangeInsert(entityId, component) ==
    /\ entityId \notin DOMAIN changeDetection.data
    /\ changeDetection' = changeInsert(changeDetection, entityId, component, getTick(currentTick))
    /\ ret' = [op |-> "changeInsert", entityId |-> entityId, tick |-> getTick(currentTick)]
    /\ UNCHANGED <<muts, outsideMut>>

\* m = storage.getMut(entityId, registry.getTick()); the caller keeps m.
ChangeGetMut(entityId) ==
    /\ Cardinality(muts) < MaxMuts
    /\ \E m \in {changeGetMut(changeDetection, entityId, getTick(currentTick))} :
          /\ muts' = IF changeHas(changeDetection, entityId) THEN muts \cup {m} ELSE muts
          /\ ret' = [op |-> "changeGetMut", entityId |-> entityId,
                     found |-> changeHas(changeDetection, entityId)]
    /\ UNCHANGED <<changeDetection, outsideMut>>

\* m.get(), m.bypass(), m.getMut(), m.set(newValue) or m.update(updater) on a Mut that
\* the caller has kept.
MutCall(m, method, newValue) ==
    /\ m \in muts
    /\ \E r \in {mutCall(changeDetection, m, method, newValue)} :
          /\ changeDetection' = r.storage
          /\ muts' = (muts \ {m}) \cup {r.mut}
          /\ ret' = [op |-> "mutCall", method |-> method, entityId |-> m.entityId,
                     tick |-> m.currentTick]
    /\ UNCHANGED outsideMut

vars == <<entityAllocator, storages, resources, commands, schedule, eventVars, queryVars,
          appVars, libraryVars, issued, despawned, program, ret>>

\* The World called directly: entities and components.
Next ==
    \/ Spawn
    \/ \E e \in Known : Despawn(e)
    \/ \E e \in Known, c \in Components : InsertComponent(e, c)
    \/ \E e \in Known, c \in Comps : GetComponent(e, c)
    \/ \E e \in Known, c \in Comps : HasComponent(e, c)
    \/ \E e \in Known, c \in Comps : RemoveComponent(e, c)

Spec == Init /\ [][Next]_vars

\* The World changed through deferred commands only.
NextCommands ==
    \/ \E l \in ComponentLists, cb \in Callbacks : CommandsSpawn(l, cb)
    \/ \E e \in Known : CommandsDespawn(e)
    \/ \E e \in issued, c \in CommandComponents : CommandsInsertComponent(e, c)
    \/ \E e \in issued, c \in CommandComponents : CommandsRemoveComponent(e, c.class)
    \/ \E r \in ResNames : CommandsInsertResource(r)
    \/ \E r \in ResNames : CommandsRemoveResource(r)
    \/ ApplyCommands

SpecCommands == Init /\ [][NextCommands]_vars

\* The systems of the game loop: they queue commands in every stage, one is
\* disabled, one has a run criteria, and one applies the commands itself.
ScheduleDescriptors ==
    {inStage(SystemDescriptor("spawn"), s) : s \in Stages}
        \cup {SystemDescriptor(f) : f \in {"despawn", "insert", "remove", "applyCommands"}}
        \cup {setEnabled(SystemDescriptor("spawn"), FALSE),
              runIf(SystemDescriptor("spawn"), "hasEntities")}

\* A Schedule of systems that change the World through commands, run over it.
NextSchedule ==
    \/ \E d \in ScheduleDescriptors : AddSystem(d)
    \/ Run

SpecSchedule == Init /\ [][NextSchedule]_vars

\* The `after` lists of the systems that are ordered by label.
Afters == {<<>>, <<"">>, <<"a">>, <<"b">>, <<"a", "b">>}

\* Systems of the Update stage with and without labels and `after` lists, and one
\* system of the Last stage that takes the label "a".
SortDescriptors ==
    {[SystemDescriptor("read") EXCEPT !.label = l, !.after = a] :
        l \in Labels \cup {None}, a \in Afters}
        \cup {label(inStage(SystemDescriptor("read"), "Last"), "a")}

\* A Schedule of systems ordered by label, run over the World.
NextSort ==
    \/ \E d \in SortDescriptors : AddSystem(d)
    \/ Run

SpecSort == Init /\ [][NextSort]_vars

\* Systems of the Update stage with and without a label and a `before` list.
BeforeDescriptors ==
    {[SystemDescriptor("read") EXCEPT !.label = l, !.before = b] :
        l \in {None, "a", "b"}, b \in {<<>>, <<"a">>, <<"b">>}}

\* A Schedule of systems ordered by `before`, run over the World.
NextBefore ==
    \/ \E d \in BeforeDescriptors : AddSystem(d)
    \/ Run

SpecBefore == Init /\ [][NextBefore]_vars

\* One Events<T> written, updated and read by the EventReaders.
NextEvents ==
    \/ \E v \in EventVals : EventsSend(v)
    \/ EventsUpdate
    \/ EventsIter
    \/ \E r \in Readers : ReaderIter(r)
    \/ \E r \in Readers : ReaderPeek(r)
    \/ \E r \in Readers : ReaderHasUnread(r)

SpecEvents == Init /\ [][NextEvents]_vars

\* Entities and components given and taken through the World, and queries run to
\* their end.
NextQuery ==
    \/ Spawn
    \/ \E e \in issued : Despawn(e)
    \/ \E e \in issued, c \in QueryComponents : InsertComponent(e, c)
    \/ \E e \in issued, c \in QueryComps : RemoveComponent(e, c)
    \/ \E q \in {QueryAB, QueryABWithoutC, QueryABWithC} : QueryToArray(q)

SpecQuery == Init /\ [][NextQuery]_vars

\* A loop over query(A, B).iter() whose body calls the World between two steps.
NextIter ==
    \/ SpawnInsert(<<[class |-> "A", value |-> "x"], [class |-> "B", value |-> "x"]>>, MaxBuilt)
    \/ \E e \in issued : Despawn(e)
    \/ \E e \in issued : RemoveComponent(e, "B")
    \/ IterStart(QueryAB)
    \/ IterNext
    \/ IterReturn

SpecIter == Init /\ [][NextIter]_vars

\* Components stamped through the World and through the registry, the tick advanced,
\* and queries with a change filter run to their end or stopped at the first result.
NextChange ==
    \/ SpawnInsert(<<[class |-> "A", value |-> "x"]>>, MaxSpawns)
    \/ \E e \in issued : InsertComponent(e, [class |-> "A", value |-> "x"])
    \/ \E e \in issued : StorageInsert(e, [class |-> "A", value |-> "x"])
    \/ \E e \in issued : MutSet(e, [class |-> "A", value |-> "x"])
    \/ IncrementTick
    \/ \E q \in {QueryAddedA, QueryChangedA} : QueryToArray(q)
    \/ \E q \in {QueryAddedA, QueryChangedA} : QuerySingle(q)
    \/ \E q \in {QueryAddedA, QueryChangedA} : QueryIsEmpty(q)

SpecChange == Init /\ [][NextChange]_vars

\* The systems of an App: they spawn through commands.
AppDescriptors == {SystemDescriptor("spawn")}

\* An App is given systems, startup systems and frame callbacks, and is run, stopped,
\* reset and stepped while the browser calls its pending animation frames.
NextApp ==
    \/ \E d \in AppDescriptors : AddSystem(d)
    \/ AddStartupSystem("spawn")
    \/ OnFrame("render")
    \/ AppRun
    \/ \E id \in animationFrames.pending, dt \in FrameTimes :
           AppRunFrame(id, app.lastTime + dt)
    \/ AppStop
    \/ AppReset
    \/ AppUpdate

SpecApp == Init /\ [][NextApp]_vars

\* An App is stepped and reset while the program leaves commands waiting in the queue
\* of its World.
NextReset ==
    \/ \E d \in AppDescriptors : AddSystem(d)
    \/ AddStartupSystem("spawn")
    \/ AppUpdate
    \/ AppReset
    \/ \E r \in ResNames : CommandsInsertResource(r)

SpecReset == Init /\ [][NextReset]_vars

\* Archetypes looked up and created by component list and along the edges, and cleared.
NextArchetypes ==
    \/ \E l \in ClassLists : GetOrCreate(l)
    \/ \E id \in 0..(Len(archetypes.archetypes) - 1), c \in IdSet(ArchetypeComps) :
           GetArchetypeForAdd(id, c)
    \/ \E id \in 0..(Len(archetypes.archetypes) - 1), c \in IdSet(ArchetypeComps) :
           GetArchetypeForRemove(id, c)
    \/ ArchetypesClear

SpecArchetypes == Init /\ [][NextArchetypes]_vars

\* Observers registered, triggered and cleared.
NextObservers ==
    \/ \E d \in ObserverDescriptors : Register(d)
    \/ \E t \in ObserverTriggers, e \in Known, c \in Comps : Trigger(t, e, c)
    \/ ObserversClear
    \/ \E c \in Comps, t \in ObserverTriggers : ClearFor(c, t)

SpecObservers == Init /\ [][NextObservers]_vars

\* Observers of the addition of a component A registered and triggered while entities
\* and components come and go through the World and its commands.
NextObserved ==
    \/ Register([componentClass |-> "A", trigger |-> "OnAdd"])
    \/ Trigger("OnAdd", NeverAllocated, "A")
    \/ Spawn
    \/ \E e \in getAllAlive(entityAllocator) : Despawn(e)
    \/ \E e \in getAllAlive(entityAllocator) :
          InsertComponent(e, [class |-> "A", value |-> "x"])
    \/ \E e \in getAllAlive(entityAllocator) : RemoveComponent(e, "A")
    \/ CommandsSpawn(<<[class |-> "A", value |-> "x"]>>, None)
    \/ ApplyCommands

SpecObserved == Init /\ [][NextObserved]_vars

\* A Table given rows, components and removals.
NextTable ==
    \/ \E e \in TableEntities : AllocateRow(e)
    \/ \E e \in TableEntities, c \in Comps, v \in TableVals : SetComponent(e.id, c, v)
    \/ \E e \in TableEntities : RemoveEntity(e.id)

SpecTable == Init /\ [][NextTable]_vars

\* A SparseSet given values, removals and clears.
NextSparseSet ==
    \/ \E id \in SparseIds, v \in SparseVals : SparseInsert(id, v)
    \/ \E id \in SparseIds : SparseRemove(id)
    \/ SparseClear

SpecSparseSet == Init /\ [][NextSparseSet]_vars

\* Components are inserted into a ChangeDetectionStorage, Mut wrappers are taken and
\* kept, read and written while the tick counter advances.
NextMut ==
    \/ \E id \in MutIds : ChangeInsert(id, "x")
    \/ \E id \in MutIds : ChangeGetMut(id)
    \/ \E m \in muts, method \in MutReads \cup MutWrites : MutCall(m, method, "y")
    \/ IncrementTick

SpecMut == Init /\ [][NextMut]_vars

\* Entities spawned and despawned through the World, with live, stale and foreign
\* handles, and the World cleared in between.
NextAllocator ==
    \/ Spawn
    \/ \E e \in Known : Despawn(e)
    \/ WorldClear

SpecAllocator == Init /\ [][NextAllocator]_vars

\* Systems of the Update stage whose `after` labels form cycles, name their own
\* label, a label nobody carries or a label carried twice; a disabled system, a
\* system with run criteria, and a system that spawns.
OrderDescriptors ==
    {[SystemDescriptor("read") EXCEPT !.label = l, !.after = a] :
        l \in {"a", "b"}, a \in {<<"a">>, <<"b">>, <<"c">>}}
        \cup {setEnabled(after(SystemDescriptor("read"), "a"), FALSE),
              runIf(after(label(SystemDescriptor("read"), "a"), "b"), "hasEntities"),
              SystemDescriptor("spawn")}

\* A Schedule of such systems, run over the World.
NextOrder ==
    \/ \E d \in OrderDescriptors : AddSystem(d)
    \/ Run

SpecOrder == Init /\ [][NextOrder]_vars

\* ---------------------------------------------------------------- entities (C1 - C3)
\* The generation stored for the id of a handle differs from the handle's.
Stale(ea, entity) ==
    entity.id \in DOMAIN ea.meta /\ ea.meta[entity.id].generation # entity.generation

\* The components of the entities that are alive.
LiveComponentsOf(w) ==
    LET live == {e.id : e \in getAllAlive(w.entityAllocator)}
        all == ComponentsOf(w.storages)
    IN [c \in Comps |-> [id \in DOMAIN all[c] \cap live |-> all[c][id]]]

\* C1: a handle on a fresh id has generation 0; a handle that reuses an id has the
\* generation of the handle last despawned on that id plus one; and a handle that
\* was despawned is never alive again, also after its id has been reused.
C1_GenerationRoundTrip ==
    /\ (ret.op = "spawn" /\ ~ret.reused) => ret.entity.generation = 0
    /\ (ret.op = "spawn" /\ ret.reused) =>
          \E e1 \in despawned :
             /\ e1.id = ret.entity.id
             /\ \A h \in despawned : h.id = e1.id => h.generation <= e1.generation
             /\ ret.entity.generation = e1.generation + 1
    /\ \A e1 \in despawned : ~isAlive(entityAllocator, e1)

\* A spawn has just reused the id of a despawned handle of generation 0.
C1_Witness ==
    /\ ret.op = "spawn" /\ ret.reused /\ ret.entity.generation = 1
    /\ [id |-> ret.entity.id, generation |-> 0] \in despawned
    /\ isAlive(entityAllocator, ret.entity)

\* C2: a handle whose generation differs from the one stored for its id reads no
\* component (getComponent none, hasComponent false), and insertComponent and
\* removeComponent with it leave the components of the live entities as they are.
C2_StaleHandleHasNoAccess ==
    \A e \in Known :
        Stale(entityAllocator, e) =>
            /\ \A c \in Comps :
                  /\ getComponent(World, e, c).result = None
                  /\ ~hasComponent(World, e, c).result
                  /\ LiveComponentsOf(removeComponent(World, e, c).world)
                        = LiveComponentsOf(World)
            /\ \A c \in Components :
                  LiveComponentsOf(insertComponent(World, e, c)) = LiveComponentsOf(World)

\* C3: despawn with a handle that is not alive returns false and leaves the entity
\* allocator (alive count, free list, generations) and every component as they are.
C3_DeadDespawnChangesNothing ==
    [][(ret'.op = "despawn" /\ ~isAlive(entityAllocator, ret'.entity))
          => /\ ret'.result = FALSE
             /\ entityAllocator' = entityAllocator
             /\ storages' = storages]_vars

\* A despawn with a stale handle has just returned false while a newer entity that
\* carries a component lives on the handle's id.
C3_Witness ==
    /\ ret.op = "despawn" /\ ret.result = FALSE
    /\ Stale(entityAllocator, ret.entity)
    /\ \E e2 \in getAllAlive(entityAllocator) :
          /\ e2.id = ret.entity.id
          /\ \E c \in Comps : hasComponent(World, e2, c).result

\* ---------------------------------------------------------------- commands (C4 - C7)
\* C4: applyCommands executes the queued commands in the order the program issued them.
C4_AppliedInIssueOrder == ret.op = "applyCommands" => ret.fifo

\* C5: an entity whose spawn and whose despawn (through onSpawn) are queued for one
\* batch has been issued and is no longer alive when applyCommands returns.
C5_SpawnedThenRemoved ==
    ret.op = "applyCommands" =>
        \A x \in ret.spawnedThenDespawned :
            x \in issued /\ ~isAlive(entityAllocator, x)

\* C6: an InsertComponent or RemoveComponent command whose target is not alive when
\* it is applied changes neither a component storage nor the entity allocator.
C6_DeadTargetSkipped ==
    ret.op = "applyCommands" =>
        \A s \in ret.applied :
            (s.type \in {"InsertComponent", "RemoveComponent"} /\ ~s.alive) => ~s.changed

\* One applyCommands has despawned a live entity and skipped an InsertComponent and a
\* RemoveComponent on a dead target.
C6_Witness ==
    /\ ret.op = "applyCommands"
    /\ [type |-> "DespawnEntity", alive |-> TRUE, changed |-> TRUE] \in ret.applied
    /\ [type |-> "InsertComponent", alive |-> FALSE, changed |-> FALSE] \in ret.applied

\* C7: when applyCommands returns, no command is pending.
C7_NothingPendingAfterApply == ret.op = "applyCommands" => ~hasPending(commands)

\* ---------------------------------------------------------------- schedule (C8 - C10)
\* The calls of runSystem whose system function ran, in the order of the last run.
Ran == SelectSeq(ret.trace, LAMBDA e : e.kind = "system" /\ e.ran)

\* The number of applyCommands() that runStage called before event i of the last run.
AppliesBefore(i) == Cardinality({k \in 1..(i - 1) : ret.trace[k].kind = "applyCommands"})

\* Where the call of runSystem on the system of identity ref is in the last run.
Position(ref) ==
    CHOOSE i \in 1..Len(ret.trace) : ret.trace[i].kind = "system" /\ ret.trace[i].ref = ref

\* C8: one Schedule.run calls runSystem once on every system of First, then
\* applyCommands, then the same for PreUpdate, Update, PostUpdate and Last:
\* runStage calls applyCommands five times, once after the systems of each stage,
\* in the fixed order of the stages and never between two systems of a stage.
C8_RunSequence ==
    ret.op = "run" =>
        LET t == ret.trace
            applies == SelectSeq(t, LAMBDA e : e.kind = "applyCommands")
            order == <<"First", "PreUpdate", "Update", "PostUpdate", "Last">>
        IN /\ [i \in 1..Len(applies) |-> applies[i].stage] = order
           /\ \A i \in 1..Len(t) :
                 t[i].kind = "system" => t[i].stage = order[AppliesBefore(i) + 1]
           /\ \A s \in Stages :
                 LET called == {i \in 1..Len(t) : t[i].kind = "system" /\ t[i].stage = s}
                 IN /\ Cardinality(called) = Len(schedule.stages[s])
                    /\ {t[i].ref : i \in called}
                          = {schedule.stages[s][k].ref : k \in 1..Len(schedule.stages[s])}

\* A run of a Schedule with two systems in one stage and a system of an earlier
\* stage that was added after them.
C8_Witness ==
    /\ ret.op = "run"
    /\ \E i, j, k \in 1..Len(ret.trace) :
          /\ i < j /\ j < k
          /\ ret.trace[i].kind = "system" /\ ret.trace[j].kind = "system"
          /\ ret.trace[k].kind = "system"
          /\ ret.trace[i].stage # ret.trace[j].stage
          /\ ret.trace[j].stage = ret.trace[k].stage
          /\ ret.trace[i].ref > ret.trace[j].ref
          /\ AppliesBefore(j) = AppliesBefore(k)
          /\ AppliesBefore(i) < AppliesBefore(j)

\* What a system function of a later stage reads is what the function that ran last
\* before it read with every command pending at its return applied.
LaterStagesSeeTheChange ==
    \A i \in 1..(Len(Ran) - 1) :
        Ran[i].stage # Ran[i + 1].stage => Ran[i + 1].view = Ran[i].expect

\* C9 as stated: a system function reads what every function that ran before it in
\* the same stage read, and the functions of the following stages read the World with
\* the queued changes applied.
C9_QueuedChangeDeferred ==
    ret.op = "run" =>
        /\ \A i, j \in 1..Len(Ran) :
              (i < j /\ Ran[i].stage = Ran[j].stage) => Ran[j].view = Ran[i].view
        /\ LaterStagesSeeTheChange

\* C9, amended: a system function reads what every function that ran before it in
\* the same stage read provided none of them, from that one on, called
\* world.applyCommands() itself; and the functions of the following stages read the
\* World with the queued changes applied.
C9_QueuedChangeDeferredUnlessFlushed ==
    ret.op = "run" =>
        /\ \A i, j \in 1..Len(Ran) :
              (/\ i < j
               /\ Ran[i].stage = Ran[j].stage
               /\ \A k \in i..(j - 1) : ~Ran[k].flushed)
                 => Ran[j].view = Ran[i].view
        /\ LaterStagesSeeTheChange

\* In one run a system function queued a change that the next function of its stage
\* did not read and that a function of a following stage did read.
C9_Witness ==
    /\ ret.op = "run"
    /\ \E i \in 1..(Len(Ran) - 2) :
          /\ Ran[i].stage = Ran[i + 1].stage
          /\ Ran[i + 1].stage # Ran[i + 2].stage
          /\ ~Ran[i].flushed /\ ~Ran[i + 1].flushed
          /\ Ran[i].expect # Ran[i].view
          /\ (i > 1 => Ran[i - 1].expect = Ran[i].view)
          /\ Ran[i + 1].view = Ran[i].view
          /\ Ran[i + 2].view # Ran[i].view

\* The systems of a stage.
SystemsOf(stage) == {schedule.stages[stage][k] : k \in 1..Len(schedule.stages[stage])}

\* The labels in the `after` list of a system.
AfterLabels(system) == {system.after[i] : i \in 1..Len(system.after)}

\* In a stage the labels are unique, every `after` label is registered to a system
\* of the stage, and the after-relation has no cycle: every non-empty set of systems
\* of the stage has a system that names none of the set.
Orderable(stage) ==
    /\ \A s1, s2 \in SystemsOf(stage) :
          (s1.label # None /\ s1.label = s2.label) => s1 = s2
    /\ \A s \in SystemsOf(stage) : \A l \in AfterLabels(s) :
          /\ l \in DOMAIN schedule.labeledSystems
          /\ schedule.labeledSystems[l] \in SystemsOf(stage)
    /\ \A X \in SUBSET SystemsOf(stage) :
          X # {} => \E s \in X : \A d \in X : d.label \notin AfterLabels(s)

\* C10: in a stage whose labels are unique, whose `after` labels are all registered
\* to systems of the stage and whose after-relation has no cycle, runSystem is called
\* on a system after it was called on every system the `after` list names.
C10_AfterIsRespected ==
    ret.op = "run" =>
        \A stage \in Stages :
            Orderable(stage) =>
                \A s, d \in SystemsOf(stage) :
                    d.label \in AfterLabels(s) => Position(d.ref) < Position(s.ref)

\* A run of a stage that can be ordered in which a system was added before the
\* system it names in `after`, which itself was added before the one it names.
C10_Witness ==
    /\ ret.op = "run"
    /\ Orderable("Update")
    /\ \E s, d, e \in SystemsOf("Update") :
          /\ d.label \in AfterLabels(s) /\ e.label \in AfterLabels(d)
          /\ s.ref < d.ref /\ d.ref < e.ref
          /\ Position(e.ref) < Position(d.ref) /\ Position(d.ref) < Position(s.ref)

\* ---------------------------------------------------------------- schedule (C11)
\* The labels in the `before` list of a system.
BeforeLabels(system) == {system.before[i] : i \in 1..Len(system.before)}

\* x is constrained to run before y: x names y in `before`, or y names x in `after`.
Precedes(x, y) == y.label \in BeforeLabels(x) \/ x.label \in AfterLabels(y)

\* In a stage the labels are unique and the constraints have no cycle: every
\* non-empty set of systems of the stage has a system that none of the set precedes.
Acyclic(stage) ==
    /\ \A s1, s2 \in SystemsOf(stage) :
          (s1.label # None /\ s1.label = s2.label) => s1 = s2
    /\ \A X \in SUBSET SystemsOf(stage) :
          X # {} => \E s \in X : \A d \in X : ~Precedes(d, s)

\* C11: in a stage whose constraints have no cycle, runSystem is called on a system
\* declared with before(L) before it is called on the system of the stage labelled L.
C11_BeforeIsRespected ==
    ret.op = "run" =>
        \A stage \in Stages :
            Acyclic(stage) =>
                \A s, d \in SystemsOf(stage) :
                    d.label \in BeforeLabels(s) => Position(s.ref) < Position(d.ref)

\* ---------------------------------------------------------------- events (C12 - C13)
\* The payloads of the events sent when Events.update had been called k times, in
\* the order they were sent.
SentAfter(k) ==
    LET sent == SelectSeq(eventLog.sent, LAMBDA s : s.updates = k)
    IN [i \in 1..Len(sent) |-> sent[i].event]

\* C12: at every point, a full iteration of Events.iter() yields the events sent
\* between the last update but one and the last update, and no other: an event sent
\* between update k and update k+1 is yielded by none before update k+1, by all
\* between update k+1 and update k+2, and by none after update k+2.
C12_VisibleForOneUpdate ==
    /\ iter(events) = SentAfter(eventLog.count - 1)
    /\ ret.op = "iter" => ret.yielded = SentAfter(eventLog.count - 1)

\* An iteration has just yielded an event while an older event is no longer yielded
\* and a newer one is not yielded yet.
C12_Witness ==
    /\ ret.op = "iter" /\ Len(ret.yielded) > 0
    /\ \E i, j \in 1..Len(eventLog.sent) :
          /\ eventLog.sent[i].updates < eventLog.count - 1
          /\ eventLog.sent[j].updates = eventLog.count

\* The ids in the readable buffer.
Readable == {events.previous[i].id : i \in 1..Len(events.previous)}

\* C13: every reader has received no event twice; what its iter() yields next is the
\* events of the readable buffer it has not received, which are those with an id
\* greater than its lastSeen; its lastSeen is the greatest id it has received itself,
\* whatever the other readers called; and after its iter() it has received every event
\* of the readable buffer.
C13_ExactlyOncePerReader ==
    /\ \A r \in Readers :
          LET got == eventLog.received[r]
              next == readerIter(readers[r], events).yielded
          IN /\ \A i, j \in 1..Len(got) : got[i] = got[j] => i = j
             /\ {next[i][1] : i \in 1..Len(next)} = Readable \ {got[i] : i \in 1..Len(got)}
             /\ {next[i][1] : i \in 1..Len(next)} = {id \in Readable : id > readers[r]}
             /\ next = peek(readers[r], events)
             /\ hasUnread(readers[r], events) <=> next # <<>>
             /\ \A i \in 1..Len(got) : got[i] <= readers[r]
             /\ readers[r] # -1 => \E i \in 1..Len(got) : got[i] = readers[r]
    /\ ret.op = "readerIter" =>
          Readable \subseteq {eventLog.received[ret.reader][i] :
                                 i \in 1..Len(eventLog.received[ret.reader])}

\* A reader has just received an event that the other reader received before and
\* that it had peeked at itself.
C13_Witness ==
    /\ ret.op = "readerIter" /\ Len(ret.yielded) > 0
    /\ \A r \in Readers :
          \E i \in 1..Len(eventLog.received[r]) :
              eventLog.received[r][i] = ret.yielded[1][1]
    /\ \E r \in Readers : Len(eventLog.received[r]) > 1

\* ---------------------------------------------------------------- queries (C14 - C15)
\* world.hasComponent(entity, componentClass) in the current state
Has(entity, componentClass) == hasComponent(World, entity, componentClass).result

\* The live entities a query is to yield: those that have every component class of
\* the query, that have the class of every with() and lack the class of every without().
Matching(q) ==
    {e \in getAllAlive(entityAllocator) :
        /\ \A i \in 1..Len(q.componentClasses) : Has(e, q.componentClasses[i])
        /\ \A i \in 1..Len(q.filters) :
              /\ q.filters[i].type = "With" => Has(e, q.filters[i].componentClass)
              /\ q.filters[i].type = "Without" => ~Has(e, q.filters[i].componentClass)}

\* The tuple a query yields for an entity: the handle, then the component of each class.
TupleOf(q, entity) ==
    <<entity>> \o [i \in 1..Len(q.componentClasses) |->
                      getComponent(World, entity, q.componentClasses[i]).result]

\* C14: after any sequence of World spawn, insertComponent, removeComponent and despawn,
\* a full iteration of query(A, B) yields one tuple for every live entity that has both
\* A and B and nothing else; with .without(C) those of them that lack C, and with
\* .with(C) those of them that have C.
C14_QueryYieldsTheMatches ==
    ret.op = "toArray" =>
        /\ Len(ret.yielded) = Cardinality(Matching(ret.query))
        /\ {ret.yielded[i] : i \in 1..Len(ret.yielded)}
              = {TupleOf(ret.query, e) : e \in Matching(ret.query)}

\* query(A, B).without(C) has yielded one of two live entities that have A and B; the
\* other has C.
C14_Witness ==
    /\ ret.op = "toArray"
    /\ ret.query = QueryABWithoutC
    /\ Len(ret.yielded) = 1
    /\ Cardinality(Matching(QueryAB)) = 2
    /\ Cardinality(Matching(QueryABWithC)) = 1

\* C15: an entity that is despawned, or that loses a component the query requires,
\* between two steps of an iteration before it has been yielded, is not yielded by the
\* steps that follow.
C15_LostEntityNotYielded ==
    (ret.op = "next" /\ ~ret.done) =>
        /\ ret.value[1] \notin despawned
        /\ \A i \in 1..Len(ret.query.componentClasses) :
              Has(ret.value[1], ret.query.componentClasses[i])

\* ---------------------------------------------------------------- change detection (C16 - C19)
\* The handles a full iteration of the query would yield in the current state, were the
\* tick of the registry t.
YieldedAt(q, t) ==
    LET r == toArray(World, q, t, lastRun[q])
    IN {r.yielded[i][1] : i \in 1..Len(r.yielded)}

\* C16: an entity just given a component A through the World (spawn().insert) is yielded
\* by the next full iteration of query(A).added(A), at the tick of this frame or of a
\* later one.
C16_AddedDetectsWorldInsert ==
    ret.op = "spawnInsert" =>
        \E t \in currentTick..(MaxTick + 1) : ret.entity \in YieldedAt(QueryAddedA, t)

\* C17: the tick that queries read never decreases, and every frame the App runs (a
\* frame callback of the browser or App.update()) raises it by one.
C17_TickAdvancesEachFrame ==
    [][/\ getTick(currentTick') >= getTick(currentTick)
       /\ ret'.op \in {"runFrame", "update"} =>
              getTick(currentTick') = getTick(currentTick) + 1]_vars

\* The ComponentTicks the storages hold.
StoredTicks ==
    UNION {{storages[c].ticks[id] : id \in DOMAIN storages[c].ticks} : c \in DOMAIN storages}

\* C18: for ComponentTicks with added = T and changed = T2, T <= T2 <= the current tick,
\* read at the current tick: isAdded(lastRun) is true exactly when lastRun < T and
\* isChanged(lastRun) exactly when lastRun < T2.
C18_TickLaw ==
    \A ticks \in StoredTicks :
        /\ ticks.added <= ticks.changed
        /\ ticks.changed <= getTick(currentTick)
        /\ \A last \in -1..(MaxTick + 1) :
              /\ isAdded(ticks, last, getTick(currentTick)) <=> last < ticks.added
              /\ isChanged(ticks, last, getTick(currentTick)) <=> last < ticks.changed

\* A component added at tick 1 has been changed at tick 2: for lastRun = 1 it is
\* changed and not added, for lastRun = 2 neither.
C18_Witness ==
    /\ ret.op = "mutSet"
    /\ \E ticks \in StoredTicks :
          /\ ticks.added = 1
          /\ ticks.changed = 2
          /\ isChanged(ticks, 1, getTick(currentTick))
          /\ ~isAdded(ticks, 1, getTick(currentTick))
          /\ ~isChanged(ticks, 2, getTick(currentTick))
          /\ isAdded(ticks, 0, getTick(currentTick))

\* The queries that carry an added() or a changed() filter.
ChangeQueries == {QueryAddedA, QueryChangedA}

\* C19: lastRun of a query becomes the current tick exactly when an iteration runs to its
\* end (toArray; single and isEmpty when nothing is yielded) and is left as it was when
\* single or isEmpty stop at the first result; and once a query with an added or changed
\* filter has run to its end at the current tick, a further full iteration at the same
\* tick yields no entity.
C19_LastRunSetOnCompletion ==
    /\ ret.op = "toArray" => lastRun[ret.query] = getTick(currentTick)
    /\ ret.op \in {"single", "isEmpty"} =>
          lastRun[ret.query] = IF ret.done THEN getTick(currentTick) ELSE ret.lastRun
    /\ \A q \in ChangeQueries :
          lastRun[q] = getTick(currentTick) => YieldedAt(q, getTick(currentTick)) = {}

\* A full iteration of query(A).added(A) whose lastRun was behind the tick has yielded
\* an entity, and iterated again at once it yields none.
C19_Witness ==
    /\ ret.op = "toArray"
    /\ ret.query = QueryAddedA
    /\ Len(ret.yielded) > 0
    /\ ret.lastRun < getTick(currentTick)
    /\ YieldedAt(QueryAddedA, getTick(currentTick)) = {}

\* ---------------------------------------------------------------- archetypes (C20)
\* C20: no two registered archetypes have the same set of component ids, the empty set
\* and lists with a class repeated included.
C20_NoTwoArchetypesOfOneSet ==
    \A i, j \in 1..Len(archetypes.archetypes) :
        archetypes.archetypes[i].componentIds = archetypes.archetypes[j].componentIds
            => i = j

\* ---------------------------------------------------------------- archetypes (C21)
\* The lists of ClassLists with no class repeated.
DistinctLists == {l \in ClassLists : Cardinality(IdSet(l)) = Len(l)}

\* The lists that are a permutation of l.
PermutationsOf(l) == {p \in DistinctLists : IdSet(p) = IdSet(l)}

\* C21: for every list of distinct component classes and every permutation of it,
\* getOrCreate of the one and then of the other return the same archetype, and the
\* second call creates none.
C21_GetOrCreateIgnoresOrder ==
    \A l \in DistinctLists : \A p \in PermutationsOf(l) :
        LET first == getOrCreate(archetypes, l)
            second == getOrCreate(first.archetypes, p)
        IN /\ second.result = first.result
           /\ second.archetypes = first.archetypes

\* getOrCreate has just created the archetype of A and B, and either order of the two
\* classes now returns it.
C21_Witness ==
    /\ ret.op = "getOrCreate"
    /\ ret.created = 1
    /\ archetypeGet(archetypes, ret.result).componentIds = {"A", "B"}
    /\ getOrCreate(archetypes, <<"A", "B">>).result = ret.result
    /\ getOrCreate(archetypes, <<"B", "A">>).result = ret.result

\* ---------------------------------------------------------------- archetypes of the World (C22)
\* C22: every live entity is recorded in the archetype its EntityMeta points to, and the
\* component set of that archetype is the set of component classes the entity has.
C22_EntityInItsArchetype ==
    \A e \in getAllAlive(entityAllocator) :
        LET location == entityAllocator.meta[e.id]
        IN /\ archetypeDefined(archetypes, location.archetypeId)
           /\ archetypeGet(archetypes, location.archetypeId).componentIds
                 = {c \in Comps : Has(e, c)}
           /\ \E row \in 1..Len(archetypeGet(archetypes, location.archetypeId).entities) :
                 archetypeGet(archetypes, location.archetypeId).entities[row] = e

\* ---------------------------------------------------------------- observers (C23 - C24)
\* The observers registered and not cleared under the key of a component class and a
\* trigger.
RegisteredUnder(componentClass, trig) ==
    {o \in observerLog.registered : o.componentClass = componentClass /\ o.trigger = trig}

\* The observer of a reference.
ObserverOf(ref) == CHOOSE o \in observerLog.registered : o.ref = ref

\* C23: a trigger calls exactly the observers registered under its component class and
\* its trigger, each once, in non-increasing order of priority, and observers of one
\* priority in the order of their registration; observers registered under another
\* component class or another trigger are not called.
C23_TriggerCallsItsObservers ==
    ret.op = "trigger" =>
        LET invoked == ret.invoked
            under == RegisteredUnder(ret.componentClass, ret.trigger)
        IN /\ {invoked[i] : i \in 1..Len(invoked)} = {o.ref : o \in under}
           /\ Len(invoked) = Cardinality(under)
           /\ \A i, j \in 1..Len(invoked) :
                 i < j =>
                    \/ ObserverOf(invoked[i]).priority > ObserverOf(invoked[j]).priority
                    \/ /\ ObserverOf(invoked[i]).priority = ObserverOf(invoked[j]).priority
                       /\ invoked[i] < invoked[j]

\* A trigger has called two observers of two priorities, the one registered last
\* first, while an observer of another key is registered.
C23_Witness ==
    /\ ret.op = "trigger"
    /\ Len(ret.invoked) = 2
    /\ ret.invoked[1] > ret.invoked[2]
    /\ \E o \in observerLog.registered :
          o.componentClass # ret.componentClass \/ o.trigger # ret.trigger

StartupCalls(trace) == {k \in 1..Len(trace) : trace[k].kind = "startup"}

\* The places of a history where runStartup applied the commands.
StartupApplies(trace) == {k \in 1..Len(trace) : trace[k].kind = "startupApply"}

\* The places of a history where a scheduled system ran.
SystemRuns(trace) == {k \in 1..Len(trace) : trace[k].kind = "system" /\ trace[k].ran}

\* C25: while reset() is not called, every startup system runs exactly once, before any
\* scheduled system runs, and the commands the startup systems queued are applied
\* before the first scheduled system runs. A call of run() or update() on an App whose
\* startup is not complete calls each startup system once, applies their commands and
\* completes the startup, all before the first scheduled system it runs; no other call
\* and no frame callback calls a startup system, a frame callback comes only after the
\* startup, and a complete startup stays complete.
C25_StartupOnceBeforeSystems ==
    [][/\ (ret'.op # "reset" /\ app.startupComplete) => app'.startupComplete
       /\ ret'.op \in {"run", "update", "runFrame"} =>
             LET trace == ret'.trace
                 calls == StartupCalls(trace)
                 applies == StartupApplies(trace)
             IN /\ ret'.op = "runFrame" => app.startupComplete
                /\ app.startupComplete => calls = {}
                /\ ~app.startupComplete =>
                      /\ app'.startupComplete
                      /\ \A i \in 1..Len(app.startupSystems) :
                            Cardinality({k \in calls : trace[k].index = i}) = 1
                      /\ Cardinality(calls) = Len(app.startupSystems)
                      /\ Cardinality(applies) = 1
                      /\ \A a \in applies :
                            /\ ~trace[a].pending
                            /\ \A k \in calls : k < a
                            /\ \A s \in SystemRuns(trace) :
                                  /\ a < s
                                  /\ Cardinality(getAllAlive(trace[s].view.entityAllocator))
                                        >= Cardinality(calls)]_vars

\* update() has just run the startup system and then a scheduled system, which found
\* the entity of the startup system alive.
C25_Witness ==
    /\ ret.op = "update"
    /\ StartupCalls(ret.trace) # {}
    /\ SystemRuns(ret.trace) # {}
    /\ app.startupComplete
    /\ getAllAlive(entityAllocator) # {}

\* The places of a history where reset had cleared the World.
Resets(trace) == {k \in 1..Len(trace) : trace[k].kind = "reset"}

\* C26: when reset() returns, what the World held before is gone and the commands that
\* were pending are not applied: the World the startup systems were run on held no
\* entity, no component, no resource but a new Time, and no command; every startup
\* system has run once more, on that World, and their commands are applied; and the
\* World holds a new Time and nothing but what the startup systems made.
C26_ResetClearsAndRestarts ==
    ret.op = "reset" =>
        LET trace == ret.trace
            calls == StartupCalls(trace)
            Cleared(held) ==
                /\ held.alive = {}
                /\ held.components = {}
                /\ held.resources = [x \in {"Time"} |-> NewTime]
                /\ ~held.pending
        IN /\ Cardinality(Resets(trace)) = 1
           /\ \A r \in Resets(trace) : Cleared(trace[r].held) /\ \A k \in calls : r < k
           /\ \A i \in 1..Len(app.startupSystems) :
                 Cardinality({k \in calls : trace[k].index = i}) = 1
           /\ Cardinality(calls) = Len(app.startupSystems)
           /\ \A k \in calls :
                 /\ trace[k].held.resources = [x \in {"Time"} |-> NewTime]
                 /\ trace[k].held.alive = {}
                 /\ trace[k].held.components = {}
           /\ Cardinality(StartupApplies(trace)) = 1
           /\ \A a \in StartupApplies(trace) : ~trace[a].pending /\ \A k \in calls : k < a
           /\ resources = [x \in {"Time"} |-> NewTime]
           /\ ~hasPending(commands)
           /\ Cardinality(getAllAlive(entityAllocator)) = Cardinality(calls)
           /\ \A e \in getAllAlive(entityAllocator) : Has(e, "A")
           /\ app.startupComplete

\* reset() has just returned on an App with a startup system, called when the World
\* held an entity with a component, a resource other than Time, and a command waiting.
C26_Witness ==
    /\ ret.op = "reset"
    /\ StartupCalls(ret.trace) # {}
    /\ \E r \in Resets(ret.trace) :
          /\ ret.trace[r].before.alive # {}
          /\ ret.trace[r].before.components # {}
          /\ DOMAIN ret.trace[r].before.resources \ {"Time"} # {}
          /\ ret.trace[r].before.pending

\* C27: after stop() has returned and until run() or reset() is called, the browser
\* calls no frame of the App: a frame is only ever run by an App that is running.
C27_NoFrameAfterStop == ret.op = "runFrame" => app.running

\* ---------------------------------------------------------------- the Table (C28)
\* C28: for every entity that has a row and every component class, getComponent
\* returns the value last set for that entity in that column, and none if none was
\* set since the entity was given its row.
C28_TableKeepsValues ==
    \A i \in 1..Len(table.entities) : \A c \in Comps :
        tableGetComponent(table, table.entities[i].id, c) = tableLog[table.entities[i].id][c]

\* ---------------------------------------------------------------- transitions (C29 - C30)
\* The ids of the archetypes registered.
ArchetypeIds == 0..(Len(archetypes.archetypes) - 1)

\* The edge of an archetype of a registry for a component, in a direction.
EdgeOf(ar, id, c, direction) ==
    IF c \in DOMAIN archetypeGet(ar, id).edges
       /\ direction \in DOMAIN archetypeGet(ar, id).edges[c]
    THEN archetypeGet(ar, id).edges[c][direction]
    ELSE -1

\* C29: for a registered archetype X and a component c not in X, getArchetypeForAdd
\* returns an archetype T of the components of X and c; afterwards the edge of X for c
\* has add = T.id, the edge of T for c has remove = X.id, and getArchetypeForRemove(T.id,
\* c) returns X. Likewise for a component c of X, getArchetypeForRemove returns an
\* archetype T of the components of X without c, and getArchetypeForAdd(T.id, c)
\* returns X.
C29_EdgesLeadBack ==
    \A x \in ArchetypeIds : \A c \in Comps :
        IF c \notin archetypeGet(archetypes, x).componentIds
        THEN LET there == getArchetypeForAdd(archetypes, x, c)
                 back == getArchetypeForRemove(there.archetypes, there.result, c)
             IN /\ there.defined
                /\ archetypeGet(there.archetypes, there.result).componentIds =
                      archetypeGet(archetypes, x).componentIds \cup {c}
                /\ EdgeOf(there.archetypes, x, c, "add") = there.result
                /\ EdgeOf(there.archetypes, there.result, c, "remove") = x
                /\ back.defined
                /\ back.result = x
        ELSE LET there == getArchetypeForRemove(archetypes, x, c)
                 back == getArchetypeForAdd(there.archetypes, there.result, c)
             IN /\ there.defined
                /\ archetypeGet(there.archetypes, there.result).componentIds =
                      archetypeGet(archetypes, x).componentIds \ {c}
                /\ back.defined
                /\ back.result = x

\* C30: also after clear(), getArchetypeForAdd(EMPTY_ARCHETYPE_ID, c) returns a
\* registered archetype whose components are exactly c.
C30_AddFromEmptyAfterClear ==
    \A c \in Comps :
        LET r == getArchetypeForAdd(archetypes, EMPTY_ARCHETYPE_ID, c)
        IN /\ r.defined
           /\ archetypeGet(r.archetypes, r.result).componentIds = {c}

\* ---------------------------------------------------------------- the SparseSet (C31 - C32)
\* C31: sparse[entities[i]] = i for every dense index i, every sparse entry points to
\* a dense index that holds its own entity id, and dense, entities and sparse have the
\* same size.
C31_SparseSetConsistent ==
    /\ \A i \in 0..(Len(sparseSet.entities) - 1) :
          /\ sparseSet.entities[i + 1] \in DOMAIN sparseSet.sparse
          /\ sparseSet.sparse[sparseSet.entities[i + 1]] = i
    /\ \A id \in DOMAIN sparseSet.sparse :
          /\ sparseSet.sparse[id] \in 0..(Len(sparseSet.entities) - 1)
          /\ sparseSet.entities[sparseSet.sparse[id] + 1] = id
    /\ Len(sparseSet.dense) = Len(sparseSet.entities)
    /\ Cardinality(DOMAIN sparseSet.sparse) = Len(sparseSet.entities)

\* An id has just been removed from a set of three; the two ids that remain are not
\* in ascending order.
C31_Witness ==
    /\ ret.op = "sparseRemove"
    /\ ret.result
    /\ Len(sparseSet.entities) = 2
    /\ sparseSet.entities[1] > sparseSet.entities[2]

\* C32: remove(x) leaves has(x) false; len() is one less when x was present, and then
\* remove returns true, and is unchanged otherwise, and then remove returns false; and
\* has(y) and get(y) of every other id y are what they were.
C32_RemoveAffectsOnlyItsId ==
    [][ret'.op = "sparseRemove" =>
          /\ ~has(sparseSet', ret'.entityId)
          /\ ret'.result = has(sparseSet, ret'.entityId)
          /\ len(sparseSet') = len(sparseSet) - (IF has(sparseSet, ret'.entityId) THEN 1 ELSE 0)
          /\ \A y \in SparseIds \ {ret'.entityId} :
                /\ has(sparseSet', y) = has(sparseSet, y)
                /\ get(sparseSet', y) = get(sparseSet, y)]_vars

\* The smallest of three ids has just been removed; the two that remain hold
\* different values.
C32_Witness ==
    /\ ret.op = "sparseRemove"
    /\ ret.result
    /\ len(sparseSet) = 2
    /\ ret.entityId < sparseSet.entities[2]
    /\ sparseSet.entities[2] < sparseSet.entities[1]
    /\ sparseSet.dense[1] # sparseSet.dense[2]


\* ---------------------------------------------------------------- Mut (C33)
\* C33: a component stamped at insertion with tick T and written afterwards only
\* through Mut keeps added = T; a write through getMut, set or update sets changed to
\* the tick of the Mut that writes; a read through get or bypass changes no tick; and
\* changed >= added in every state.
C33_MutKeepsAddedSetsChanged ==
    [][/\ \A id \in DOMAIN changeDetection'.ticks :
             /\ changeDetection'.ticks[id].changed >= changeDetection'.ticks[id].added
             /\ id \in DOMAIN changeDetection.ticks
                   => changeDetection'.ticks[id].added = changeDetection.ticks[id].added
             /\ id \notin DOMAIN changeDetection.ticks
                   => changeDetection'.ticks[id].added = currentTick
       /\ ret'.op = "mutCall" /\ ret'.method \in MutWrites
             => changeDetection'.ticks[ret'.entityId].changed = ret'.tick
       /\ ret'.op = "mutCall" /\ ret'.method \in MutReads
             => changeDetection'.ticks = changeDetection.ticks]_vars

\* A Mut taken at an earlier tick has written after the counter advanced, to a
\* component added before the Mut was taken.
C33_Witness ==
    /\ ret.op = "mutCall"
    /\ ret.method \in MutWrites
    /\ ret.tick < currentTick
    /\ changeDetection.ticks[ret.entityId].added < ret.tick


\* ---------------------------------------------------------------- storages (C34)
\* C34: a component storage holds a value only for the ids of live entities, so the
\* entity that spawn() returns on a recycled id has no component until one is inserted
\* on it.
C34_StoragesHoldOnlyLiveIds ==
    \A c \in DOMAIN storages :
        \A id \in DOMAIN storages[c].storage :
            \E e \in getAllAlive(entityAllocator) : e.id = id


\* ---------------------------------------------------------------- handles (C35 - C36)
\* C35: no handle is issued twice: the (id, generation) pair that allocate returns was
\* never returned by an earlier allocate, also across clear.
C35_NeverIssuedTwice ==
    [][ret'.op = "spawn" => ret'.entity \notin issued]_vars

\* The ids the allocator has minted since it was constructed or cleared.
Minted == DOMAIN entityAllocator.meta

\* C36: getCount() is the number of handles of getAllAlive(); a minted id is in the
\* free list at most once, and exactly when getAllAlive() has no handle for it; every
\* handle of getAllAlive() satisfies isAlive; the handle allocate returned is among
\* them and the handle deallocate accepted is not.
C36_AllocatorConsistent ==
    /\ getCount(entityAllocator) = Cardinality(getAllAlive(entityAllocator))
    /\ \A i, j \in 1..Len(entityAllocator.freeList) :
          entityAllocator.freeList[i] = entityAllocator.freeList[j] => i = j
    /\ \A i \in 1..Len(entityAllocator.freeList) : entityAllocator.freeList[i] \in Minted
    /\ \A id \in Minted :
          includes(entityAllocator.freeList, id)
              <=> ~\E h \in getAllAlive(entityAllocator) : h.id = id
    /\ \A h \in getAllAlive(entityAllocator) : isAlive(entityAllocator, h)
    /\ ret.op = "spawn"
          => /\ ret.entity \in getAllAlive(entityAllocator)
             /\ ~includes(entityAllocator.freeList, ret.entity.id)
    /\ ret.op = "despawn" /\ ret.result
          => /\ ret.entity \notin getAllAlive(entityAllocator)
             /\ includes(entityAllocator.freeList, ret.entity.id)
    /\ ret.op = "clear" => getCount(entityAllocator) = 0 /\ Minted = {}


\* ---------------------------------------------------------------- ordering (C37 - C38)
\* The calls of runSystem for a system in the history of a run.
CallsOf(trace, ref) == {k \in 1..Len(trace) : trace[k].kind = "system" /\ trace[k].ref = ref}

\* C37: whatever the `after` labels of a stage are, a run calls runSystem exactly once
\* for each system of the Schedule, and the system's function runs in that call
\* exactly when the system is enabled and its run criteria, if any, hold.
C37_EachSystemOnce ==
    ret.op = "run" =>
        /\ Cardinality({k \in 1..Len(ret.trace) : ret.trace[k].kind = "system"})
              = systemCount(schedule)
        /\ \A stage \in Stages :
              \A i \in 1..Len(schedule.stages[stage]) :
                  LET system == schedule.stages[stage][i]
                      calls == CallsOf(ret.trace, system.ref)
                  IN /\ Cardinality(calls) = 1
                     /\ \A k \in calls :
                           ret.trace[k].ran
                               = (/\ system.enabled
                                  /\ \/ system.runCriteria = None
                                     \/ ret.trace[k].view.entityAllocator.aliveCount > 0)

\* A run over a stage with a cycle of `after` labels between a system that ran and a
\* system whose run criteria did not hold, and a disabled system.
C37_Witness ==
    /\ ret.op = "run"
    /\ \E i, j \in 1..Len(schedule.stages["Update"]) :
          LET s == schedule.stages["Update"][i]
              t == schedule.stages["Update"][j]
          IN /\ s.label = "a" /\ s.after = <<"b">> /\ s.runCriteria # None
             /\ t.label = "b" /\ t.after = <<"a">>
             /\ \E k \in CallsOf(ret.trace, s.ref) : ~ret.trace[k].ran
             /\ \E k \in CallsOf(ret.trace, t.ref) : ret.trace[k].ran
    /\ \E i \in 1..Len(schedule.stages["Update"]) : ~schedule.stages["Update"][i].enabled

RECURSIVE Placeable(_, _, _)
\* The systems of a stage that the `after` constraints allow to be placed: those whose
\* registered dependencies are all placeable systems of the stage. The others depend,
\* directly or through the systems they wait for, on a constraint that cannot be
\* satisfied inside the stage.
Placeable(stage, placed, n) ==
    IF n = 0 THEN placed
    ELSE Placeable(stage,
                   {s \in SystemsOf(stage) :
                       \A l \in AfterLabels(s) :
                           l \in DOMAIN schedule.labeledSystems
                               => schedule.labeledSystems[l] \in placed},
                   n - 1)

\* C38: a system of a stage that does not depend on an `after` constraint that cannot
\* be satisfied inside the stage is called after every system its labels name.
C38_UnsatisfiableStaysLocal ==
    ret.op = "run" =>
        \A stage \in Stages :
            \A s \in Placeable(stage, {}, Len(schedule.stages[stage])) :
                \A i \in 1..Len(s.after) :
                    s.after[i] \in DOMAIN schedule.labeledSystems =>
                        \A k \in CallsOf(ret.trace, s.ref) :
                            \E d \in CallsOf(ret.trace, schedule.labeledSystems[s.after[i]].ref) :
                                d < k

\* A run over a stage where one system waits for itself and another, added before
\* the system it names, does not depend on it.
C38_Witness ==
    /\ ret.op = "run"
    /\ Len(schedule.stages["Update"]) = 3
    /\ LET stuck == schedule.stages["Update"][1]
           first == schedule.stages["Update"][2]
           named == schedule.stages["Update"][3]
       IN /\ stuck.label = "a" /\ stuck.after = <<"a">>
          /\ first.after = <<"b">> /\ first.label = None
          /\ named.label = "b" /\ named.after = <<>>


\* ---------------------------------------------------------------- frame loop (C39)
\* C39: at most one animation frame of the App is pending at any time.
C39_OneFramePending == Cardinality(animationFrames.pending) <= 1


\* ---------------------------------------------------------------- iteration (C40)
\* C40: the handle that a step of Query.iter() yields is alive when it is yielded.
C40_YieldedIsAlive ==
    (ret.op = "next" /\ ~ret.done) => isAlive(entityAllocator, ret.value[1])

====
